---- MODULE Spec2Model ----
(***************************************************************************)
(* Document-to-questionnaire pipeline of forms-agent: question extraction  *)
(* (document_parser), validation and type conversion (form_validator) and  *)
(* compilation into batchUpdate requests (form_creator, form_editor,       *)
(* GoogleFormsAPI).  Python dictionaries are functions over their keys,    *)
(* lists are sequences, str values are strings.                            *)
(***************************************************************************)
EXTENDS Integers, Sequences, FiniteSets, TLC

VARIABLES
    form_structure,   \* the form structure dictionary handed to the validator
    state,            \* tool_context.state, the session dictionary
    call,             \* the name of the last tool function called
    result,           \* the dictionary returned by the last tool call
    questions_arg,    \* the questions list handed to the compiler by its caller
    use_standalone,   \* form_creator.USE_STANDALONE_API, fixed at import
    modifications,    \* the modifications list handed to modify_questions
    hash_seed,        \* the seed of str hashing of the running process
    text,             \* the document text handed to extract_questions
    now,              \* datetime.now(), in milliseconds since the session began
    args,             \* the arguments of the last tool call of the session
    writes,           \* the writes the session sent to the form service, with their times
    sent,             \* the remote calls issued by the last tool call
    invocations       \* the callback invocations under way, each with its position

vars == <<form_structure, state, call, result, questions_arg, use_standalone,
          modifications, hash_seed, text, now, args, writes, sent, invocations>>

-----------------------------------------------------------------------------
(* Bounds of the explored inputs *)

MaxQuestions == 2
MaxModifications == 2
MaxLines == 2
MaxCalls == 3
MaxTime == 2000
MaxInvocations == 2

-----------------------------------------------------------------------------
(* Python built-ins *)

\* dict.get(k, default)
Get(d, k, default) == IF k \in DOMAIN d THEN d[k] ELSE default

\* d[k] = v for every key k of the dictionary upd (dict.update)
Store(st, upd) == [k \in DOMAIN st \cup DOMAIN upd |->
                     IF k \in DOMAIN upd THEN upd[k] ELSE st[k]]

\* c * n for a one-character string c
RECURSIVE Rep(_, _)
Rep(c, n) ==
    IF n = 0 THEN ""
    ELSE IF n % 2 = 0 THEN LET h == Rep(c, n \div 2) IN h \o h
    ELSE c \o Rep(c, n - 1)

Whitespace == {" ", "\t", "\n", "\r"}

CharAt(s, i) == SubSeq(s, i, i)

\* Index of the first non-whitespace character at or after i, Len(s) + 1 if none
RECURSIVE FirstNonSpace(_, _)
FirstNonSpace(s, i) ==
    IF i > Len(s) \/ CharAt(s, i) \notin Whitespace THEN i ELSE FirstNonSpace(s, i + 1)

\* Index of the last non-whitespace character at or before i, 0 if none
RECURSIVE LastNonSpace(_, _)
LastNonSpace(s, i) ==
    IF i = 0 \/ CharAt(s, i) \notin Whitespace THEN i ELSE LastNonSpace(s, i - 1)

\* str.strip()
Strip(s) ==
    LET lo == FirstNonSpace(s, 1)
    IN  IF lo > Len(s) THEN "" ELSE SubSeq(s, lo, LastNonSpace(s, Len(s)))

UpperCase == "ABCDEFGHIJKLMNOPQRSTUVWXYZ"
LowerCase == "abcdefghijklmnopqrstuvwxyz"

LowerOf ==
    [c \in {CharAt(UpperCase, i) : i \in 1..26} |->
        CharAt(LowerCase, CHOOSE i \in 1..26 : CharAt(UpperCase, i) = c)]

LowerChar(c) == IF c \in DOMAIN LowerOf THEN LowerOf[c] ELSE c

\* str.lower()
RECURSIVE Lower(_)
Lower(s) ==
    IF Len(s) = 0 THEN ""
    ELSE IF Len(s) = 1 THEN LowerChar(s)
    ELSE LET m == Len(s) \div 2
         IN  Lower(SubSeq(s, 1, m)) \o Lower(SubSeq(s, m + 1, Len(s)))

\* word in s
Contains(s, w) ==
    \E i \in 1..(Len(s) - Len(w) + 1) : SubSeq(s, i, i + Len(w) - 1) = w

\* any(word in s for word in words)
AnyIn(words, s) == \E w \in words : Contains(s, w)

\* [f(x) for x in seq if p(x)] support: concatenation of a sequence of sequences
RECURSIVE FlattenFrom(_, _)
FlattenFrom(ss, i) == IF i > Len(ss) THEN <<>> ELSE ss[i] \o FlattenFrom(ss, i + 1)

Flatten(ss) == FlattenFrom(ss, 1)

\* The sequences over S of length at most n
SeqsUpTo(S, n) == UNION {[1..m -> S] : m \in 0..n}

\* the elements of a sequence
Range(seq) == {seq[i] : i \in 1..Len(seq)}

\* str(v): the text of a value, a str being its own text
Str(v) ==
    LET t == ToString(v)
    IN  IF SubSeq(t, 1, 1) = "\"" THEN SubSeq(t, 2, Len(t) - 1) ELSE t

\* The value None where a str is expected
None == "<None>"

\* The closed set of question kinds the tools document and compile
QuestionKind ==
    {"multiple_choice", "checkbox", "dropdown", "short_answer", "long_answer",
     "linear_scale", "multiple_choice_grid", "checkbox_grid", "date", "time",
     "file_upload", "image", "video", "section"}

ChoiceKinds == {"multiple_choice", "checkbox", "dropdown"}

-----------------------------------------------------------------------------
(* form_validator/tools.py *)

\* Issues and warnings of one question, in the order the loop body appends them
QuestionIssues(question, i) ==
    LET question_text == Get(question, "question", "")
        question_type == Get(question, "type", "")
        options == Get(question, "options", <<>>)
        n == ToString(i)
        textIssue ==
            IF question_text = "" \/ Strip(question_text) = ""
            THEN <<"Question " \o n \o ": Question text is required">>
            ELSE IF Len(question_text) > 4096
            THEN <<"Question " \o n \o ": Question text exceeds 4096 character limit">>
            ELSE <<>>
        typeIssue ==
            IF question_type = ""
            THEN <<"Question " \o n \o ": Question type is required">>
            ELSE <<>>
        countIssue ==
            IF question_type = "multiple_choice" /\ Len(options) < 2
            THEN <<"Question " \o n \o ": Multiple choice questions need at least 2 options">>
            ELSE <<>>
        optionIssues ==
            IF question_type = "multiple_choice"
            THEN Flatten([j \in 1..Len(options) |->
                    IF Len(Str(options[j])) > 1000
                    THEN <<"Question " \o n \o ", Option " \o ToString(j)
                             \o ": Option text exceeds 1000 character limit">>
                    ELSE <<>>])
            ELSE <<>>
    IN  textIssue \o typeIssue \o countIssue \o optionIssues

QuestionWarnings(question, i) ==
    LET question_type == Get(question, "type", "")
        options == Get(question, "options", <<>>)
    IN  IF question_type = "multiple_choice" /\ Len(options) >= 2 /\ Len(options) > 20
        THEN <<"Question " \o ToString(i) \o ": Many options ("
                 \o ToString(Len(options)) \o ") may be overwhelming">>
        ELSE <<>>

_validate_questions(questions) ==
    [issues   |-> Flatten([i \in 1..Len(questions) |-> QuestionIssues(questions[i], i)]),
     warnings |-> Flatten([i \in 1..Len(questions) |-> QuestionWarnings(questions[i], i)])]

\* The set of items that occur more than once
_find_duplicates(items) ==
    {items[j] : j \in {k \in 1..Len(items) : \E i \in 1..(k - 1) : items[i] = items[k]}}

\* str(list(duplicates)); one process lists a given set in one fixed order
RECURSIVE ReprSet(_)
ReprSet(S) ==
    IF S = {} THEN ""
    ELSE LET x == CHOOSE y \in S : TRUE
         IN  "'" \o x \o "'" \o (IF S = {x} THEN "" ELSE ", " \o ReprSet(S \ {x}))

\* validate_form_structure, "Check required fields": the title
TitleIssues(fs) ==
    LET title == Get(fs, "title", "")
    IN  IF title = "" THEN <<"Form title is required">>
        ELSE IF Len(title) > 300 THEN <<"Form title exceeds 300 character limit">>
        ELSE <<>>

\* validate_form_structure: the description, a warning when empty
DescriptionWarnings(fs) ==
    IF Get(fs, "description", "") = ""
    THEN <<"Form description is recommended for better user experience">>
    ELSE <<>>

DescriptionIssues_EmptyBlocks(fs) ==
    LET description == Get(fs, "description", "")
    IN  IF description = "" THEN <<"Form description is required">>
        ELSE IF Len(description) > 4096
        THEN <<"Form description exceeds 4096 character limit">>
        ELSE <<>>

DescriptionIssues(fs) ==
    LET description == Get(fs, "description", "")
    IN  IF description # "" /\ Len(description) > 4096
        THEN <<"Form description exceeds 4096 character limit">>
        ELSE <<>>

CountIssues_OffByOne(questions) ==
    IF Len(questions) = 0 THEN <<"Form must have at least one question">>
    ELSE IF Len(questions) > 101 THEN <<"Form exceeds maximum of 100 questions">>
    ELSE <<>>

\* validate_form_structure, "Check questions": the number of questions
CountIssues(questions) ==
    IF Len(questions) = 0 THEN <<"Form must have at least one question">>
    ELSE IF Len(questions) > 100 THEN <<"Form exceeds maximum of 100 questions">>
    ELSE <<>>

\* validate_form_structure, "Check for duplicates"
DuplicateWarnings(questions) ==
    LET question_texts == [i \in 1..Len(questions) |-> Get(questions[i], "question", "")]
        duplicates == _find_duplicates(question_texts)
    IN  IF duplicates # {}
        THEN <<"Duplicate questions found: [" \o ReprSet(duplicates) \o "]">>
        ELSE <<>>

\* is_valid = len(issues) == 0
IsValid(issues) == Len(issues) = 0

\* "validated_structure": form_structure if is_valid else None;
\* the optional value is a sequence of at most one element
ValidatedStructure(fs, is_valid) == IF is_valid THEN <<fs>> ELSE <<>>

\* The validation_result dictionary built by validate_form_structure
ValidationResult(fs) ==
    LET questions == Get(fs, "questions", <<>>)
        question_validation == _validate_questions(questions)
        issues == TitleIssues(fs) \o DescriptionIssues(fs) \o CountIssues(questions)
                    \o question_validation.issues
        warnings == DescriptionWarnings(fs) \o question_validation.warnings
                    \o DuplicateWarnings(questions)
        is_valid == IsValid(issues)
    IN  [is_valid       |-> is_valid,
         issues         |-> issues,
         warnings       |-> warnings,
         question_count |-> Len(questions),
         validated_structure |-> ValidatedStructure(fs, is_valid)]

FormStructureAfterValidation_FillsDescription(fs) ==
    IF Get(fs, "description", "") = ""
    THEN Store(fs, [description |-> "Form created from document"])
    ELSE fs

\* validate_form_structure never assigns into its argument
FormStructureAfterValidation(fs) == fs

\* The dictionary validate_form_structure returns
ValidateReturn(fs) ==
    LET vr == ValidationResult(fs)
    IN  [status     |-> "success",
         validation |-> vr,
         summary    |-> (IF vr.is_valid THEN "Valid" ELSE "Invalid") \o " form with "
                          \o ToString(Len(vr.issues)) \o " issues and "
                          \o ToString(Len(vr.warnings)) \o " warnings"]

\* check_question_types: supported_types
supported_types ==
    [t \in {"multiple_choice", "short_answer", "long_answer", "checkbox", "dropdown",
            "linear_scale", "multiple_choice_grid", "checkbox_grid", "date", "time",
            "file_upload"} |->
        CASE t = "multiple_choice" -> "MULTIPLE_CHOICE"
          [] t = "short_answer" -> "SHORT_ANSWER"
          [] t = "long_answer" -> "PARAGRAPH"
          [] t = "checkbox" -> "CHECKBOX"
          [] t = "dropdown" -> "DROP_DOWN"
          [] t = "linear_scale" -> "LINEAR_SCALE"
          [] t = "multiple_choice_grid" -> "MULTIPLE_CHOICE_GRID"
          [] t = "checkbox_grid" -> "CHECKBOX_GRID"
          [] t = "date" -> "DATE"
          [] t = "time" -> "TIME"
          [] t = "file_upload" -> "FILE_UPLOAD"]

\* _suggest_type_conversion: the direct conversion table
conversions ==
    [t \in {"text", "textarea", "number", "email", "url", "phone", "rating", "scale",
            "select", "radio", "multi_select"} |->
        CASE t = "textarea" -> "long_answer"
          [] t \in {"rating", "scale"} -> "linear_scale"
          [] t = "select" -> "dropdown"
          [] t = "radio" -> "multiple_choice"
          [] t = "multi_select" -> "checkbox"
          [] OTHER -> "short_answer"]

_suggest_type_conversion_NoFallback(original_type, question_text) ==
    LET question_lower == Lower(question_text)
    IN  IF original_type \in DOMAIN conversions THEN conversions[original_type]
        ELSE IF AnyIn({"rate", "scale", "score"}, question_lower) THEN "linear_scale"
        ELSE IF AnyIn({"select all", "check all", "multiple"}, question_lower) THEN "checkbox"
        ELSE IF AnyIn({"explain", "describe", "elaborate"}, question_lower) THEN "long_answer"
        ELSE ""

\* _suggest_type_conversion; the empty string stands for None
_suggest_type_conversion(original_type, question_text) ==
    LET question_lower == Lower(question_text)
    IN  IF original_type \in DOMAIN conversions THEN conversions[original_type]
        ELSE IF AnyIn({"rate", "scale", "score"}, question_lower) THEN "linear_scale"
        ELSE IF AnyIn({"select all", "check all", "multiple"}, question_lower) THEN "checkbox"
        ELSE IF AnyIn({"explain", "describe", "elaborate"}, question_lower) THEN "long_answer"
        ELSE "short_answer"

_convert_to_google_forms_format(question, google_forms_type) ==
    LET base == [type     |-> google_forms_type,
                 question |-> Get(question, "question", ""),
                 required |-> Get(question, "required", FALSE)]
    IN  IF google_forms_type \in {"MULTIPLE_CHOICE", "CHECKBOX", "DROP_DOWN"}
        THEN IF Get(question, "options", <<>>) # <<>>
             THEN Store(base, [options |-> question.options])
             ELSE base
        ELSE IF google_forms_type = "LINEAR_SCALE"
        THEN Store(base, [min_value |-> Get(question, "min_value", 1),
                          max_value |-> Get(question, "max_value", 5),
                          min_label |-> Get(question, "min_label", ""),
                          max_label |-> Get(question, "max_label", "")])
        ELSE IF google_forms_type \in {"MULTIPLE_CHOICE_GRID", "CHECKBOX_GRID"}
        THEN Store(base, [rows    |-> Get(question, "rows", <<>>),
                          columns |-> Get(question, "columns", <<>>)])
        ELSE IF google_forms_type = "FILE_UPLOAD"
        THEN Store(base, [max_files     |-> Get(question, "max_files", 1),
                          max_file_size |-> Get(question, "max_file_size", 10)])
        ELSE base

\* check_question_types, one pass of the loop body for the question at
\* 0-based index i: which list it is appended to, the entry, the converted
\* question, and whether supported_types[converted_type] raises KeyError
AnalyseQuestion(question, i) ==
    LET question_type == Lower(Get(question, "type", ""))
        question_text == Get(question, "question", "Question " \o ToString(i + 1))
        converted_type == _suggest_type_conversion(question_type, question_text)
    IN  IF question_type \in DOMAIN supported_types
        THEN [list   |-> "supported",
              raises |-> FALSE,
              entry  |-> [index |-> i, type |-> question_type,
                          google_forms_type |-> supported_types[question_type]],
              converted |-> <<_convert_to_google_forms_format(
                                 question, supported_types[question_type])>>]
        ELSE IF converted_type # ""
        THEN IF converted_type \in DOMAIN supported_types
             THEN [list   |-> "conversion_needed",
                   raises |-> FALSE,
                   entry  |-> [index |-> i, original_type |-> question_type,
                               suggested_type |-> converted_type,
                               google_forms_type |-> supported_types[converted_type]],
                   converted |-> <<_convert_to_google_forms_format(
                                      Store(question, [type |-> converted_type]),
                                      supported_types[converted_type])>>]
             ELSE [list |-> "conversion_needed", raises |-> TRUE,
                   entry |-> [index |-> i], converted |-> <<>>]
        ELSE [list   |-> "unsupported",
              raises |-> FALSE,
              entry  |-> [index |-> i, type |-> question_type, question |-> question_text],
              converted |-> <<>>]

\* The loop of check_question_types over enumerate(questions)
Analysis(questions) == [k \in 1..Len(questions) |-> AnalyseQuestion(questions[k], k - 1)]

\* The entries the loop appended to type_analysis[list]
AnalysisList(analysis, list) ==
    Flatten([k \in 1..Len(analysis) |->
        IF analysis[k].list = list THEN <<analysis[k].entry>> ELSE <<>>])

ConvertedQuestions(analysis) ==
    Flatten([k \in 1..Len(analysis) |-> analysis[k].converted])

\* The dictionary check_question_types returns
CheckReturn(questions) ==
    LET analysis == Analysis(questions)
    IN  IF \E k \in 1..Len(analysis) : analysis[k].raises
        THEN [status        |-> "error",
              error_message |-> "Question type validation failed: KeyError",
              error_type    |-> "KeyError"]
        ELSE LET type_analysis ==
                     [supported         |-> AnalysisList(analysis, "supported"),
                      unsupported       |-> AnalysisList(analysis, "unsupported"),
                      conversion_needed |-> AnalysisList(analysis, "conversion_needed")]
             IN  [status              |-> "success",
                  type_analysis       |-> type_analysis,
                  converted_questions |-> ConvertedQuestions(analysis),
                  summary |-> [total_questions  |-> Len(questions),
                               supported        |-> Len(type_analysis.supported),
                               needs_conversion |-> Len(type_analysis.conversion_needed),
                               unsupported      |-> Len(type_analysis.unsupported)]]

\* check_question_types copies a question before it rewrites the type
QuestionsAfterCheck(questions) == questions

-----------------------------------------------------------------------------
(* Inputs of the validator *)

MaxFormQuestions == 100

SurveyQuestion(i) ==
    [type |-> "short_answer", question |-> "Q" \o ToString(i) \o "?", required |-> TRUE]

QuestionPool ==
    { [type |-> "short_answer", question |-> "Your name?", required |-> TRUE],
      [type |-> "multiple_choice", question |-> "Pick one?", options |-> <<"X">>],
      [type |-> "multiple_choice", question |-> "Pick one?",
       options |-> <<"A", "B", "C">>, required |-> TRUE],
      [type |-> "checkbox", question |-> "Select all that apply?", options |-> <<"X">>],
      [type |-> "dropdown", question |-> "Choose?",
       options |-> <<"A", Rep("o", 1001)>>],
      [type |-> "multiple_choice", question |-> "Which?",
       options |-> <<"A", Rep("o", 1001)>>],
      [type |-> "rating", question |-> "Service quality"],
      [type |-> "Garbage", question |-> "Please EXPLAIN your reasoning"],
      [type |-> "widget", question |-> "Select all options"],
      [type |-> "image", question |-> "Logo", content_uri |-> "http://x/i.png"],
      [question |-> "   ", required |-> FALSE],
      [type |-> "long_answer", question |-> Rep("q", 4096)],
      [type |-> "long_answer", question |-> Rep("q", 4097)] }

QuestionLists ==
    SeqsUpTo(QuestionPool, MaxQuestions)
        \cup {[i \in 1..n |-> SurveyQuestion(i)] :
                 n \in {MaxFormQuestions, MaxFormQuestions + 1}}

FormInfos ==
    { [title |-> "Survey", description |-> "About the survey"],
      [title |-> "", description |-> ""],
      [title |-> "Survey", description |-> ""],
      [title |-> "  ", description |-> "About the survey"],
      [title |-> Rep("t", 300), description |-> Rep("d", 4096)],
      [title |-> Rep("t", 301), description |-> "About the survey"],
      [title |-> "Survey", description |-> Rep("d", 4097)],
      [description |-> "About the survey"] }

FormStructures ==
    {Store(info, [questions |-> qs]) : info \in FormInfos, qs \in QuestionLists}

NoResult == [status |-> "none"]
EmptyState == [k \in {} |-> 0]

-----------------------------------------------------------------------------
(* The validator tools as operations on a session *)

InitValidator ==
    /\ form_structure \in FormStructures
    /\ state = EmptyState
    /\ call = "none"
    /\ result = NoResult
    /\ questions_arg = <<>>
    /\ use_standalone = FALSE
    /\ modifications = <<>>
    /\ hash_seed = 0
    /\ text = ""
    /\ now = 0
    /\ args = EmptyState
    /\ writes = <<>>
    /\ sent = <<>>
    /\ invocations = <<>>

\* validate_form_structure(form_structure, tool_context)
ValidateFormStructure ==
    LET ret == ValidateReturn(form_structure)
    IN  /\ call' = "validate_form_structure"
        /\ result' = ret
        /\ state' = Store(state, [validation_result |-> ret.validation])
        /\ form_structure' = FormStructureAfterValidation(form_structure)
        /\ UNCHANGED <<questions_arg, use_standalone, modifications, hash_seed, text, now, args, writes, sent,
                       invocations>>

\* check_question_types(form_structure["questions"], tool_context)
CheckQuestionTypes ==
    LET ret == CheckReturn(form_structure.questions)
    IN  /\ call' = "check_question_types"
        /\ result' = ret
        /\ state' = IF ret.status = "success"
                    THEN Store(state, [converted_questions |-> ret.converted_questions,
                                       type_analysis       |-> ret.type_analysis])
                    ELSE state
        /\ form_structure' =
               Store(form_structure,
                     [questions |-> QuestionsAfterCheck(form_structure.questions)])
        /\ UNCHANGED <<questions_arg, use_standalone, modifications, hash_seed, text, now, args, writes, sent,
                       invocations>>

NextValidator == ValidateFormStructure \/ CheckQuestionTypes

SpecValidator == InitValidator /\ [][NextValidator]_vars

-----------------------------------------------------------------------------
(* form_creator/tools.py: compilation of questions into createItem requests *)

\* [{"value": str(option)} for option in options]
OptionValues_DropsRepeated(options) ==
    LET firsts == {i \in 1..Len(options) :
                      \A j \in 1..(i - 1) : Str(options[j]) # Str(options[i])}
        Nth(n) == CHOOSE i \in firsts : Cardinality({j \in firsts : j <= i}) = n
    IN  [n \in 1..Cardinality(firsts) |-> [value |-> Str(options[Nth(n)])]]

\* [{"value": str(option)} for option in options]
OptionValues(options) == [i \in 1..Len(options) |-> [value |-> Str(options[i])]]

\* if "grading" in question: question_item["question"]["grading"] = question["grading"]
WithGrading(question, q) ==
    IF "grading" \in DOMAIN question THEN Store(q, [grading |-> question.grading]) ELSE q

\* .get("type", "").lower() raises AttributeError when the type is None
FormatRaises(question) == Get(question, "type", "") = None

\* form_creator._format_question_for_api, for a question it does not raise on
Creator_format_question_for_api(question) ==
    LET question_type == Lower(Get(question, "type", ""))
        question_text == Get(question, "question", "")
        required == Get(question, "required", FALSE)
        item == [title |-> question_text]
        question_item ==
            CASE question_type = "multiple_choice" ->
                   [question |-> WithGrading(question,
                       [required |-> required,
                        choiceQuestion |->
                            [type |-> "RADIO",
                             options |-> OptionValues(Get(question, "options", <<>>)),
                             shuffle |-> Get(question, "shuffle", FALSE)]])]
              [] question_type = "checkbox" ->
                   [question |-> WithGrading(question,
                       [required |-> required,
                        choiceQuestion |->
                            [type |-> "CHECKBOX",
                             options |-> OptionValues(Get(question, "options", <<>>)),
                             shuffle |-> Get(question, "shuffle", FALSE)]])]
              [] question_type = "dropdown" ->
                   [question |-> WithGrading(question,
                       [required |-> required,
                        choiceQuestion |->
                            [type |-> "DROP_DOWN",
                             options |-> OptionValues(Get(question, "options", <<>>))]])]
              [] question_type = "short_answer" ->
                   [question |-> WithGrading(question,
                       [required |-> required,
                        textQuestion |-> [k \in {} |-> TRUE]])]
              [] question_type = "long_answer" ->
                   [question |-> WithGrading(question,
                       [required |-> required,
                        textQuestion |-> [paragraph |-> TRUE]])]
              [] question_type = "linear_scale" ->
                   [question |->
                       [required |-> required,
                        scaleQuestion |->
                            [low       |-> Get(question, "min_value", 1),
                             high      |-> Get(question, "max_value", 5),
                             lowLabel  |-> Get(question, "min_label", ""),
                             highLabel |-> Get(question, "max_label", "")]]]
              [] question_type \in {"multiple_choice_grid", "checkbox_grid"} ->
                   [question |->
                       [required |-> required,
                        gridQuestion |->
                            [columns |-> [options |->
                                 OptionValues(Get(question, "columns", <<>>))],
                             rows |-> [options |->
                                 OptionValues(Get(question, "rows", <<>>))],
                             type |-> IF question_type = "multiple_choice_grid"
                                      THEN "RADIO" ELSE "CHECKBOX"]]]
              [] question_type = "date" ->
                   [question |->
                       [required |-> required,
                        dateQuestion |->
                            [includeTime |-> Get(question, "include_time", FALSE),
                             includeYear |-> Get(question, "include_year", TRUE)]]]
              [] question_type = "time" ->
                   [question |->
                       [required |-> required,
                        timeQuestion |-> [duration |-> Get(question, "duration", FALSE)]]]
              [] question_type = "file_upload" ->
                   [question |->
                       [required |-> required,
                        fileUploadQuestion |->
                            [maxFiles |-> Get(question, "max_files", 1),
                             maxFileSize |-> Get(question, "max_file_size", 10485760),
                             allowedFileTypes |->
                                 Get(question, "allowed_file_types", <<>>)]]]
    IN  IF question_type \in {"multiple_choice", "checkbox", "dropdown", "short_answer",
                              "long_answer", "linear_scale", "multiple_choice_grid",
                              "checkbox_grid", "date", "time", "file_upload"}
        THEN Store(item, [questionItem |-> question_item])
        ELSE IF question_type = "image"
        THEN Store(item, [imageItem |->
                 [image |-> [contentUri |-> Get(question, "content_uri", ""),
                             properties |->
                                 [alignment |-> Get(question, "alignment", "LEFT")]]]])
        ELSE IF question_type = "video"
        THEN Store(item, [videoItem |->
                 [video |-> [youtubeUri |-> Get(question, "youtube_uri", "")]]])
        ELSE IF question_type = "section"
        THEN Store(item, [pageBreakItem |->
                 [navigationType |-> Get(question, "navigation_type", "CONTINUE")]])
        ELSE item

LocationIndex_OneBased(i) == i + 1

\* "location": {"index": i} of the createItem request of the question at
\* 0-based position i of enumerate(questions)
LocationIndex(i) == i

\* _add_questions_direct: the loop over enumerate(questions); a question whose
\* formatting raises is skipped
DirectRequests(qs) ==
    Flatten([k \in 1..Len(qs) |->
        IF FormatRaises(qs[k]) THEN <<>>
        ELSE <<[createItem |->
                  [item     |-> Creator_format_question_for_api(qs[k]),
                   location |-> [index |-> LocationIndex(k - 1)]]]>>])

DirectAdded(qs) ==
    Flatten([k \in 1..Len(qs) |-> IF FormatRaises(qs[k]) THEN <<>> ELSE <<qs[k]>>])

\* google_forms_api.QUESTION_TYPE_MAPPING
QUESTION_TYPE_MAPPING ==
    [t \in {"multiple_choice", "short_answer", "long_answer", "checkbox", "dropdown",
            "linear_scale", "date", "time", "grid"} |->
        CASE t = "multiple_choice" -> "MULTIPLE_CHOICE"
          [] t = "short_answer" -> "SHORT_ANSWER"
          [] t = "long_answer" -> "PARAGRAPH"
          [] t = "checkbox" -> "CHECKBOX"
          [] t = "dropdown" -> "DROP_DOWN"
          [] t = "linear_scale" -> "LINEAR_SCALE"
          [] t = "date" -> "DATE"
          [] t = "time" -> "TIME"
          [] t = "grid" -> "MULTIPLE_CHOICE_GRID"]

\* GoogleFormsAPI._format_question_for_api
Api_format_question_for_api(question) ==
    LET question_type == Get(question, "type", "short_answer")
        api_type == Get(QUESTION_TYPE_MAPPING, question_type, "SHORT_ANSWER")
        formatted_question ==
            [questionType |-> api_type, required |-> Get(question, "required", FALSE)]
    IN  IF api_type \in {"MULTIPLE_CHOICE", "CHECKBOX", "DROP_DOWN"}
        THEN Store(formatted_question,
                   [choiceQuestion |->
                       [type |-> IF api_type = "MULTIPLE_CHOICE" THEN "RADIO" ELSE api_type,
                        options |-> OptionValues(Get(question, "options", <<>>))]])
        ELSE IF api_type = "LINEAR_SCALE"
        THEN LET scale_data == Get(question, "scale", [low |-> 1, high |-> 5])
             IN  Store(formatted_question,
                       [scaleQuestion |->
                           [low       |-> Get(scale_data, "low", 1),
                            high      |-> Get(scale_data, "high", 5),
                            lowLabel  |-> Get(scale_data, "low_label", ""),
                            highLabel |-> Get(scale_data, "high_label", "")]])
        ELSE IF api_type \in {"MULTIPLE_CHOICE_GRID", "CHECKBOX_GRID"}
        THEN LET grid_data == Get(question, "grid", [k \in {} |-> TRUE])
             IN  Store(formatted_question,
                       [rowQuestion |->
                           [title   |-> Get(grid_data, "title", ""),
                            options |-> OptionValues(Get(grid_data, "options", <<>>))]])
        ELSE formatted_question

\* GoogleFormsAPI.add_questions: the loop over enumerate(questions)
ApiRequests(qs) ==
    [k \in 1..Len(qs) |->
        [createItem |->
            [item |-> [title |-> Get(qs[k], "title", ""),
                       questionItem |->
                           [question |-> Api_format_question_for_api(qs[k]),
                            required |-> Get(qs[k], "required", FALSE)]],
             location |-> [index |-> LocationIndex(k - 1)]]]]

\* The response of the remote service to one call
RemoteOutcomes == {"ok", "http_error"}

HttpStatus == 400
HttpMessage == "Invalid JSON payload received"

BatchUpdate(form_id, requests) ==
    [method |-> "forms.batchUpdate", formId |-> form_id, body |-> [requests |-> requests]]

BatchReply(requests) == [replies |-> [k \in 1..Len(requests) |-> "reply"]]

\* GoogleFormsAPI.add_questions(form_id, questions): the returned dictionary
ApiAddQuestionsReturn(form_id, qs, outcome) ==
    IF ApiRequests(qs) = <<>>
    THEN [result |-> "success", questions_added |-> 0, message |-> "No questions to add"]
    ELSE IF outcome = "ok"
    THEN [result |-> "success",
          questions_added |-> Len(qs),
          batch_result |-> BatchReply(ApiRequests(qs)),
          message |-> "Successfully added " \o ToString(Len(qs))
                        \o " questions to form " \o form_id]
    ELSE [result |-> "error",
          message |-> "Failed to add questions: " \o HttpMessage,
          error_code |-> HttpStatus]

\* add_questions_to_form with USE_STANDALONE_API: the returned dictionary;
\* a success without batch_result raises KeyError in the conversion
StandaloneReturn(form_id, qs, outcome) ==
    LET r == ApiAddQuestionsReturn(form_id, qs, outcome)
    IN  IF r.result = "success"
        THEN IF "batch_result" \in DOMAIN r
             THEN [status |-> "success",
                   added_questions |-> qs,
                   question_count |-> r.questions_added,
                   update_result |-> r.batch_result,
                   message |-> r.message]
             ELSE [status |-> "error",
                   error_message |-> "Failed to add questions to form: 'batch_result'",
                   error_type |-> "KeyError"]
        ELSE [status |-> "error",
              error_message |-> r.message,
              error_code |-> r.error_code,
              error_type |-> "APIError"]

\* _add_questions_direct: the returned dictionary
DirectReturn(form_id, qs, outcome) ==
    IF DirectRequests(qs) = <<>>
    THEN [status |-> "error", error_message |-> "No valid questions to add to the form"]
    ELSE IF outcome = "ok"
    THEN [status |-> "success",
          added_questions |-> DirectAdded(qs),
          question_count |-> Len(DirectAdded(qs)),
          update_result |-> BatchReply(DirectRequests(qs)),
          message |-> "Successfully added " \o ToString(Len(DirectAdded(qs)))
                        \o " questions to form " \o form_id]
    ELSE [status |-> "error",
          error_message |-> "Failed to add questions: " \o HttpMessage,
          error_code |-> HttpStatus,
          error_type |-> "HttpError"]

\* Neither compile path assigns into the question dictionaries
QuestionsAfterAdd(qs) == qs

FormIds == {"form1"}

\* add_questions_to_form(form_id, questions, tool_context), for the questions
\* of the caller
AddQuestionsCall(questions) ==
    \E form_id \in FormIds, outcome \in RemoteOutcomes :
        LET requests == IF use_standalone THEN ApiRequests(questions)
                        ELSE DirectRequests(questions)
            ret == IF use_standalone THEN StandaloneReturn(form_id, questions, outcome)
                   ELSE DirectReturn(form_id, questions, outcome)
            api == ApiAddQuestionsReturn(form_id, questions, outcome)
        IN  /\ call' = "add_questions_to_form"
            /\ sent' = IF requests = <<>> THEN <<>>
                       ELSE <<BatchUpdate(form_id, requests)>>
            /\ result' = ret
            /\ state' = IF use_standalone /\ api.result = "success"
                        THEN Store(state, [added_questions |-> questions,
                                           total_questions |-> api.questions_added])
                        ELSE IF ~use_standalone /\ ret.status = "success"
                        THEN Store(state, [added_questions |-> ret.added_questions,
                                           total_questions |-> ret.question_count])
                        ELSE state
            /\ questions_arg' = QuestionsAfterAdd(questions)
            /\ UNCHANGED <<form_structure, use_standalone, modifications, hash_seed, text,
                           now, args, writes,
                           invocations>>

AddQuestionsToForm == AddQuestionsCall(questions_arg)

\* Inputs of the compiler: one question of every kind, option and grading
\* variants, labels outside the closed set and a malformed question
CompilerPool ==
    { [type |-> "short_answer", question |-> "Your name?", required |-> TRUE],
      [type |-> "long_answer", question |-> "Your name?", required |-> TRUE],
      [type |-> "multiple_choice", question |-> "Pick one?",
       options |-> <<"A", "B", "C">>, required |-> TRUE],
      [type |-> "checkbox", question |-> "Pick one?", options |-> <<"A", "B", "C">>,
       required |-> TRUE, grading |-> [pointValue |-> 2]],
      [type |-> "dropdown", question |-> "Choose?", options |-> <<"B", "A", "B">>],
      [type |-> "dropdown", question |-> "How many?", options |-> <<1, 2>>],
      [type |-> "linear_scale", question |-> "Rate us", min_value |-> 1, max_value |-> 10],
      [type |-> "multiple_choice_grid", question |-> "Grid", rows |-> <<"r1", "r2">>,
       columns |-> <<"c1", "c2">>],
      [type |-> "checkbox_grid", question |-> "Grid", rows |-> <<"r1", "r2">>,
       columns |-> <<"c1", "c2">>],
      [type |-> "date", question |-> "When?"],
      [type |-> "time", question |-> "When?"],
      [type |-> "file_upload", question |-> "Upload", max_files |-> 2],
      [type |-> "image", question |-> "Logo", content_uri |-> "http://x/i.png"],
      [type |-> "video", question |-> "Intro", youtube_uri |-> "http://y/v"],
      [type |-> "section", question |-> "Part 2"],
      [type |-> "rating", question |-> "Rate us"],
      [type |-> "widget", question |-> "Anything else?", required |-> TRUE],
      [type |-> None, question |-> "Broken"] }

CompilerQuestionLists == SeqsUpTo(CompilerPool, MaxQuestions)

InitCreator ==
    /\ form_structure = [title |-> "Survey", description |-> "", questions |-> <<>>]
    /\ state = EmptyState
    /\ call = "none"
    /\ result = NoResult
    /\ questions_arg \in CompilerQuestionLists
    /\ use_standalone \in BOOLEAN
    /\ modifications = <<>>
    /\ hash_seed = 0
    /\ text = ""
    /\ now = 0
    /\ args = EmptyState
    /\ writes = <<>>
    /\ sent = <<>>
    /\ invocations = <<>>

NextCreator == AddQuestionsToForm

SpecCreator == InitCreator /\ [][NextCreator]_vars

-----------------------------------------------------------------------------
(* form_editor/tools.py: compilation of modifications into a batch *)

Alphabet == " ?abcdefghijklmnopqrstuvwxyzABCDEFGHIJKLMNOPQRSTUVWXYZ0123456789"

CodeOf ==
    [c \in {CharAt(Alphabet, i) : i \in 1..Len(Alphabet)} |->
        CHOOSE i \in 1..Len(Alphabet) : CharAt(Alphabet, i) = c]

CharCode(c) == IF c \in DOMAIN CodeOf THEN CodeOf[c] ELSE 0

\* hash(s) % 1000000: a function of the string and of the seed of the process
\* (a * b) % 1000000 for a and b below 1000000, within 32 bits
MulMod(a, b) == ((((a \div 1000) * b) % 1000000) * 1000 + (a % 1000) * b) % 1000000

\* 31^n % 1000000
RECURSIVE Pow31(_)
Pow31(n) ==
    IF n = 0 THEN 1
    ELSE LET half == Pow31(n \div 2)
         IN  IF n % 2 = 0 THEN MulMod(half, half) ELSE MulMod(MulMod(half, half), 31)

\* The characters lo..hi of s as the digits of a number in base 31, % 1000000
RECURSIVE Poly(_, _, _)
Poly(s, lo, hi) ==
    IF lo > hi THEN 0
    ELSE IF hi - lo < 24 THEN (Poly(s, lo, hi - 1) * 31 + CharCode(CharAt(s, hi))) % 1000000
    ELSE LET mid == (lo + hi) \div 2
         IN  (MulMod(Poly(s, lo, mid), Pow31(hi - mid)) + Poly(s, mid + 1, hi)) % 1000000

\* h = seed; for c in s[:n]: h = (h * 31 + code(c)) % 1000000
HashFrom(s, n) == (MulMod(hash_seed, Pow31(n)) + Poly(s, 1, n)) % 1000000

Hash(s) == HashFrom(s, Len(s))

\* form_editor._format_question_for_api, for a question dictionary
Editor_format_question_for_api(question) ==
    LET question_type == Lower(Get(question, "type", ""))
        question_text == Get(question, "question", "")
        required == Get(question, "required", FALSE)
        questionId == "question_" \o ToString(Hash(question_text))
        formatted_question == [title |-> question_text, questionId |-> questionId]
        base == [questionId |-> questionId, required |-> required]
        Grid == [columns |-> [options |-> OptionValues(Get(question, "columns", <<>>))],
                 rows |-> [options |-> OptionValues(Get(question, "rows", <<>>))],
                 shuffleQuestions |-> Get(question, "shuffle", FALSE)]
    IN  CASE question_type = "multiple_choice" ->
               Store(formatted_question, [question |-> WithGrading(question,
                   Store(base, [choiceQuestion |->
                       [type |-> "RADIO",
                        options |-> OptionValues(Get(question, "options", <<>>)),
                        shuffle |-> Get(question, "shuffle", FALSE)]]))])
          [] question_type = "checkbox" ->
               Store(formatted_question, [question |-> WithGrading(question,
                   Store(base, [choiceQuestion |->
                       [type |-> "CHECKBOX",
                        options |-> OptionValues(Get(question, "options", <<>>)),
                        shuffle |-> Get(question, "shuffle", FALSE)]]))])
          [] question_type = "dropdown" ->
               Store(formatted_question, [question |-> WithGrading(question,
                   Store(base, [choiceQuestion |->
                       [type |-> "DROP_DOWN",
                        options |-> OptionValues(Get(question, "options", <<>>))]]))])
          [] question_type = "short_answer" ->
               Store(formatted_question, [question |-> WithGrading(question,
                   Store(base, [textQuestion |-> [type |-> "SHORT_ANSWER"]]))])
          [] question_type = "long_answer" ->
               Store(formatted_question, [question |-> WithGrading(question,
                   Store(base, [textQuestion |-> [type |-> "PARAGRAPH"]]))])
          [] question_type = "linear_scale" ->
               Store(formatted_question, [question |->
                   Store(base, [scaleQuestion |->
                       [low       |-> Get(question, "min_value", 1),
                        high      |-> Get(question, "max_value", 5),
                        lowLabel  |-> Get(question, "min_label", ""),
                        highLabel |-> Get(question, "max_label", "")]])])
          [] question_type = "multiple_choice_grid" ->
               Store(formatted_question, [question |-> Store(base, [gridQuestion |-> Grid])])
          [] question_type = "checkbox_grid" ->
               Store(formatted_question, [question |-> Store(base, [gridQuestion |-> Grid])])
          [] question_type = "date" ->
               Store(formatted_question, [question |->
                   Store(base, [dateQuestion |->
                       [includeTime |-> Get(question, "include_time", FALSE),
                        includeYear |-> Get(question, "include_year", TRUE)]])])
          [] question_type = "time" ->
               Store(formatted_question, [question |->
                   Store(base, [timeQuestion |->
                       [duration |-> Get(question, "duration", FALSE)]])])
          [] question_type = "file_upload" ->
               Store(formatted_question, [question |->
                   Store(base, [fileUploadQuestion |->
                       [folderId |-> Get(question, "folder_id", ""),
                        maxFiles |-> Get(question, "max_files", 1),
                        maxFileSize |-> Get(question, "max_file_size", 10485760),
                        allowedFileTypes |-> Get(question, "allowed_file_types", <<>>)]])])
          [] question_type = "image" ->
               LET width == Get(question, "width", 0)
                   height == Get(question, "height", 0)
                   properties == [alignment |-> Get(question, "alignment", "LEFT")]
               IN  Store(formatted_question, [imageItem |->
                       [image |->
                           [contentUri |-> Get(question, "content_uri", ""),
                            properties |->
                                IF width # 0 /\ height # 0
                                THEN Store(properties, [width |-> width, height |-> height])
                                ELSE properties]]])
          [] question_type = "video" ->
               Store(formatted_question, [videoItem |->
                   [video |-> [youtubeUri |-> Get(question, "youtube_uri", "")]]])
          [] question_type = "section" ->
               LET page == [navigationType |-> Get(question, "navigation_type", "CONTINUE")]
               IN  Store(formatted_question, [pageBreakItem |->
                       IF "condition" \in DOMAIN question
                       THEN Store(page, [condition |-> question.condition])
                       ELSE page])
          [] OTHER ->
               Store(formatted_question, [question |->
                   Store(base, [textQuestion |-> [type |-> "SHORT_ANSWER"]])])

\* ",".join(parts)
RECURSIVE Join(_, _)
Join(parts, sep) ==
    IF parts = <<>> THEN ""
    ELSE IF Len(parts) = 1 THEN parts[1]
    ELSE parts[1] \o sep \o Join(Tail(parts), sep)

\* _get_update_mask_for_question: the type-specific mask parts
TypeMaskParts(question_type) ==
    IF question_type \in {"multiple_choice", "checkbox", "dropdown"}
    THEN <<"questionItem.question.choiceQuestion", "questionItem.question.required">>
    ELSE IF question_type \in {"short_answer", "long_answer"}
    THEN <<"questionItem.question.textQuestion", "questionItem.question.required">>
    ELSE IF question_type = "linear_scale"
    THEN <<"questionItem.question.scaleQuestion", "questionItem.question.required">>
    ELSE IF question_type \in {"multiple_choice_grid", "checkbox_grid"}
    THEN <<"questionItem.question.gridQuestion", "questionItem.question.required">>
    ELSE IF question_type = "date"
    THEN <<"questionItem.question.dateQuestion", "questionItem.question.required">>
    ELSE IF question_type = "time"
    THEN <<"questionItem.question.timeQuestion", "questionItem.question.required">>
    ELSE IF question_type = "file_upload"
    THEN <<"questionItem.question.fileUploadQuestion", "questionItem.question.required">>
    ELSE IF question_type = "image"
    THEN <<"imageItem.image", "imageItem.image.properties">>
    ELSE IF question_type = "video"
    THEN <<"videoItem.video">>
    ELSE IF question_type = "section"
    THEN <<"pageBreakItem.navigationType">>
    ELSE <<"questionItem">>

GradingMaskParts_WhenGraded(question_data) ==
    IF "grading" \in DOMAIN question_data /\ question_data.grading # [k \in {} |-> 0]
    THEN <<"questionItem.question.grading">>
    ELSE <<>>

\* _get_update_mask_for_question: if "grading" in question_data
GradingMaskParts(question_data) ==
    IF "grading" \in DOMAIN question_data
    THEN <<"questionItem.question.grading">>
    ELSE <<>>

_get_update_mask_for_question(question_data) ==
    Join(<<"title">> \o TypeMaskParts(Lower(Get(question_data, "type", "")))
             \o GradingMaskParts(question_data), ",")

\* mod.get("question") is None for an add or update without a question, and
\* None.get raises AttributeError
ModificationRaises(mod) ==
    /\ Get(mod, "operation", None) \in {"add", "update"}
    /\ \/ "question" \notin DOMAIN mod
       \/ FormatRaises(mod.question)

\* modify_questions: the request built for one modification, none for an
\* operation other than add, update and delete
ModificationRequest(mod) ==
    LET operation == Get(mod, "operation", None)
    IN  IF operation = "add"
        THEN <<[createItem |->
                  [item |-> Editor_format_question_for_api(mod.question),
                   location |-> [index |-> Get(mod, "index", 0)]]]>>
        ELSE IF operation = "update"
        THEN <<[updateItem |->
                  [item |-> Store([itemId |-> Get(mod, "item_id", None)],
                                  Editor_format_question_for_api(mod.question)),
                   updateMask |-> _get_update_mask_for_question(mod.question)]]>>
        ELSE IF operation = "delete"
        THEN <<[deleteItem |-> [location |-> [index |-> Get(mod, "index", 0)]]]>>
        ELSE <<>>

\* A variant that builds the requests from the last modification to the first
ModificationRequests_Reversed(mods) ==
    Flatten([k \in 1..Len(mods) |-> ModificationRequest(mods[Len(mods) + 1 - k])])

ModificationRequests(mods) ==
    Flatten([k \in 1..Len(mods) |-> ModificationRequest(mods[k])])

\* modify_questions(form_id, modifications): the returned dictionary
ModifyReturn(form_id, mods, outcome) ==
    IF \E k \in 1..Len(mods) : ModificationRaises(mods[k])
    THEN [status |-> "error",
          error_message |-> "Failed to modify questions: "
                              \o "'NoneType' object has no attribute 'get'",
          error_type |-> "AttributeError"]
    ELSE IF ModificationRequests(mods) = <<>>
    THEN [status |-> "error", error_message |-> "No modifications specified."]
    ELSE IF outcome = "ok"
    THEN [status |-> "success",
          form_id |-> form_id,
          modifications_applied |-> Len(ModificationRequests(mods)),
          modification_result |-> BatchReply(ModificationRequests(mods)),
          message |-> "Successfully applied "
                        \o ToString(Len(ModificationRequests(mods)))
                        \o " modifications to form " \o form_id]
    ELSE [status |-> "error",
          error_message |-> "Failed to modify form: " \o HttpMessage,
          error_code |-> HttpStatus,
          error_type |-> "HttpError"]

\* modify_questions never assigns into the modifications it is given
ModificationsAfterModify(mods) == mods

\* modify_questions(form_id, modifications, tool_context)
ModifyQuestions ==
    \E form_id \in FormIds, outcome \in RemoteOutcomes :
        LET ret == ModifyReturn(form_id, modifications, outcome)
            built == ~(\E k \in 1..Len(modifications) :
                          ModificationRaises(modifications[k]))
                     /\ ModificationRequests(modifications) # <<>>
        IN  /\ call' = "modify_questions"
            /\ sent' = IF built
                       THEN <<BatchUpdate(form_id, ModificationRequests(modifications))>>
                       ELSE <<>>
            /\ result' = ret
            /\ state' = IF ret.status = "success"
                        THEN Store(state, [last_form_modifications |->
                                 [form_id |-> form_id,
                                  modifications |-> modifications,
                                  result |-> ret.modification_result]])
                        ELSE state
            /\ modifications' = ModificationsAfterModify(modifications)
            /\ UNCHANGED <<form_structure, questions_arg, use_standalone, hash_seed, text,
                           now, args, writes,
                           invocations>>

\* The form the editor works on, as the ids of its items from index 0 on
FormItems == <<"item1", "item2", "item3">>

\* Forms API, batchUpdate: whether the form takes a request
RequestApplies(items, request) ==
    IF "deleteItem" \in DOMAIN request
    THEN request.deleteItem.location.index \in 0..(Len(items) - 1)
    ELSE IF "createItem" \in DOMAIN request
    THEN request.createItem.location.index \in 0..Len(items)
    ELSE TRUE

\* Forms API, batchUpdate: the items after one request; a deleteItem takes out
\* the item at its index, a createItem puts a new item in at its index
AfterRequest(items, request) ==
    IF "deleteItem" \in DOMAIN request
    THEN LET i == request.deleteItem.location.index
         IN  SubSeq(items, 1, i) \o SubSeq(items, i + 2, Len(items))
    ELSE IF "createItem" \in DOMAIN request
    THEN LET i == request.createItem.location.index
         IN  SubSeq(items, 1, i) \o <<"new">> \o SubSeq(items, i + 1, Len(items))
    ELSE items

\* Forms API, batchUpdate: the items after the first n requests of a batch,
\* applied one after the other
RECURSIVE AfterRequests(_, _, _)
AfterRequests(items, requests, n) ==
    IF n = 0 THEN items
    ELSE AfterRequest(AfterRequests(items, requests, n - 1), requests[n])

\* Whether the form takes every one of the first n requests
BatchApplies(items, requests, n) ==
    \A k \in 1..n : RequestApplies(AfterRequests(items, requests, k - 1), requests[k])

\* GoogleFormsAPI.delete_questions: one deleteItem for every index, in the
\* order of the list
DeleteRequests(question_indices) ==
    [k \in 1..Len(question_indices) |->
        [deleteItem |-> [location |-> [index |-> question_indices[k]]]]]

\* GoogleFormsAPI.delete_questions(form_id, question_indices): the returned
\* dictionary
ApiDeleteQuestionsReturn(form_id, question_indices, outcome) ==
    IF DeleteRequests(question_indices) = <<>>
    THEN [result |-> "success", questions_deleted |-> 0,
          message |-> "No questions to delete"]
    ELSE IF outcome = "ok"
    THEN [result |-> "success",
          questions_deleted |-> Len(DeleteRequests(question_indices)),
          batch_result |-> BatchReply(DeleteRequests(question_indices)),
          message |-> "Successfully deleted "
                        \o ToString(Len(DeleteRequests(question_indices)))
                        \o " questions from form " \o form_id]
    ELSE [result |-> "error",
          message |-> "Failed to delete questions: " \o HttpMessage,
          error_code |-> HttpStatus]

\* delete_questions_tool(form_id, question_indices): the returned dictionary
DeleteQuestionsToolReturn(form_id, question_indices, outcome) ==
    IF question_indices = <<>>
    THEN [result |-> "error", message |-> "No question indices provided"]
    ELSE ApiDeleteQuestionsReturn(form_id, question_indices, outcome)

\* The indices a caller lists
QuestionIndices == 0..2

\* delete_questions_tool(form_id, question_indices, tool_context)
DeleteQuestionsTool ==
    \E form_id \in FormIds, outcome \in RemoteOutcomes,
       question_indices \in SeqsUpTo(QuestionIndices, MaxModifications) :
        LET ret == DeleteQuestionsToolReturn(form_id, question_indices, outcome)
        IN  /\ call' = "delete_questions_tool"
            /\ args' = [form_id |-> form_id, question_indices |-> question_indices]
            /\ sent' = IF question_indices # <<>>
                       THEN <<BatchUpdate(form_id, DeleteRequests(question_indices))>>
                       ELSE <<>>
            /\ result' = ret
            /\ state' = IF ret.result = "success"
                        THEN Store(state, [last_deleted_questions |->
                                 [form_id |-> form_id,
                                  questions_deleted |-> ret.questions_deleted]])
                        ELSE state
            /\ UNCHANGED <<form_structure, questions_arg, use_standalone, modifications,
                           hash_seed, text, now, writes,
                           invocations>>

\* Inputs of the editor
ModificationPool ==
    { [operation |-> "add", index |-> 1,
       question |-> [type |-> "short_answer", question |-> "Your name?"]],
      [operation |-> "add",
       question |-> [type |-> "rating", question |-> "Rate us"]],
      [operation |-> "update", item_id |-> "item1",
       question |-> [type |-> "linear_scale", question |-> "Rate us",
                     min_value |-> 1, max_value |-> 10]],
      [operation |-> "update", item_id |-> "item2",
       question |-> [type |-> "Linear_Scale", question |-> "Score", required |-> TRUE,
                     min_label |-> "bad", max_label |-> "good"]],
      [operation |-> "update", item_id |-> "item3",
       question |-> [type |-> "image", question |-> "Logo",
                     content_uri |-> "http://x/i.png", width |-> 10, height |-> 20]],
      [operation |-> "update", item_id |-> "item4",
       question |-> [type |-> "image", question |-> "Banner",
                     content_uri |-> "http://x/b.png", grading |-> [pointValue |-> 1]]],
      [operation |-> "update", item_id |-> "item5",
       question |-> [type |-> "multiple_choice", question |-> "Pick one?",
                     options |-> <<"A", "B">>, grading |-> [pointValue |-> 2]]],
      [operation |-> "update", item_id |-> "item6",
       question |-> [type |-> "multiple_choice", question |-> "Pick two?",
                     options |-> <<"C", "D", "E">>, shuffle |-> TRUE,
                     grading |-> [k \in {} |-> 0]]],
      [operation |-> "update", item_id |-> "item7",
       question |-> [type |-> "multiple_choice", question |-> "Pick one?",
                     options |-> <<"A", "B">>]],
      [operation |-> "update", item_id |-> "item8",
       question |-> [type |-> "widget", question |-> "Anything else?"]],
      [operation |-> "update", item_id |-> "item9"],
      [operation |-> "update", item_id |-> "item10",
       question |-> [type |-> "multiple_choice_grid", question |-> "Grid",
                     rows |-> <<"r1">>, columns |-> <<"c1", "c2">>]],
      [operation |-> "add",
       question |-> [type |-> "checkbox_grid", question |-> "Grid",
                     rows |-> <<"r1">>, columns |-> <<"c1", "c2">>]],
      [operation |-> "add",
       question |-> [type |-> "long_answer", question |-> "Your name?"]],
      [operation |-> "delete", item_id |-> "item1", index |-> 2],
      [operation |-> "delete", item_id |-> "item1", index |-> 0],
      [operation |-> "delete", item_id |-> "item2", index |-> 1],
      [operation |-> "delete", item_id |-> "item2"],
      [operation |-> "move", index |-> 3] }

HashSeeds == {0, 7}

InitEditor ==
    /\ form_structure = [title |-> "Survey", description |-> "", questions |-> <<>>]
    /\ state = EmptyState
    /\ call = "none"
    /\ result = NoResult
    /\ questions_arg = <<>>
    /\ use_standalone = FALSE
    /\ modifications \in SeqsUpTo(ModificationPool, MaxModifications)
    /\ hash_seed \in HashSeeds
    /\ text = ""
    /\ now = 0
    /\ args = EmptyState
    /\ writes = <<>>
    /\ sent = <<>>
    /\ invocations = <<>>

NextEditor == ModifyQuestions

SpecEditor == InitEditor /\ [][NextEditor]_vars

\* A session that only deletes, through either tool
DeleteModifications == {mod \in ModificationPool : mod.operation = "delete"}

InitDelete ==
    /\ form_structure = [title |-> "Survey", description |-> "", questions |-> <<>>]
    /\ state = EmptyState
    /\ call = "none"
    /\ result = NoResult
    /\ questions_arg = <<>>
    /\ use_standalone = FALSE
    /\ modifications \in SeqsUpTo(DeleteModifications, MaxModifications)
    /\ hash_seed \in HashSeeds
    /\ text = ""
    /\ now = 0
    /\ args = EmptyState
    /\ writes = <<>>
    /\ sent = <<>>
    /\ invocations = <<>>

NextDelete == ModifyQuestions \/ DeleteQuestionsTool

SpecDelete == InitDelete /\ [][NextDelete]_vars

-----------------------------------------------------------------------------
(* document_parser/tools.py: extract_questions *)

Digits == {"0", "1", "2", "3", "4", "5", "6", "7", "8", "9"}

\* First index j >= i with s[j] = c, 0 if there is none
RECURSIVE FindChar(_, _, _)
FindChar(s, c, i) ==
    IF i > Len(s) THEN 0
    ELSE IF CharAt(s, i) = c THEN i
    ELSE FindChar(s, c, i + 1)

\* First index j >= i with s[j] in the set cs, 0 if there is none
RECURSIVE FindIn(_, _, _)
FindIn(s, cs, i) ==
    IF i > Len(s) THEN 0
    ELSE IF CharAt(s, i) \in cs THEN i
    ELSE FindIn(s, cs, i + 1)

\* First index j >= i with s[j] not in the set cs, Len(s) + 1 if there is none
RECURSIVE SkipIn(_, _, _)
SkipIn(s, cs, i) ==
    IF i > Len(s) \/ CharAt(s, i) \notin cs THEN i ELSE SkipIn(s, cs, i + 1)

\* Index of the last character of the line that holds index i
EndOfLine(s, i) ==
    LET n == FindChar(s, "\n", i) IN IF n = 0 THEN Len(s) ELSE n - 1

\* str.find(sub): the 1-based index of the first occurrence, 0 if absent
Find(s, sub) ==
    IF Contains(s, sub)
    THEN CHOOSE i \in 1..(Len(s) - Len(sub) + 1) :
            /\ SubSeq(s, i, i + Len(sub) - 1) = sub
            /\ \A j \in 1..(i - 1) : SubSeq(s, j, j + Len(sub) - 1) # sub
    ELSE 0

\* The regex tail \s*(.+?) scanned from index i: where the group starts.
\* \s* takes the whole whitespace run; when nothing follows the run it gives
\* back characters until the group can start on a character that is not a
\* newline.  0 when the group cannot start.
GroupStart(s, i) ==
    LET w == FirstNonSpace(s, i)
        back == {j \in i..Len(s) : j < w /\ CharAt(s, j) # "\n"}
    IN  IF w <= Len(s) THEN w
        ELSE IF back = {} THEN 0
        ELSE CHOOSE j \in back : \A k \in back : k <= j

\* The lookahead (?=\n\s*[A-D]\)|\n\s*a\)) under re.IGNORECASE at index e
OptionAhead(s, e) ==
    /\ e <= Len(s)
    /\ CharAt(s, e) = "\n"
    /\ LET m == FirstNonSpace(s, e + 1)
       IN  /\ m + 1 <= Len(s)
           /\ LowerChar(CharAt(s, m)) \in {"a", "b", "c", "d"}
           /\ CharAt(s, m + 1) = ")"

RECURSIVE FirstOptionAhead(_, _)
FirstOptionAhead(s, e) ==
    IF e > Len(s) THEN 0
    ELSE IF OptionAhead(s, e) THEN e
    ELSE FirstOptionAhead(s, e + 1)

\* re.findall(multiple_choice_pattern, text, re.DOTALL | re.IGNORECASE) from
\* index cur: a match runs from a digit over the first "?" to the first point
\* where the lookahead holds
RECURSIVE McMatchesFrom(_, _)
McMatchesFrom(s, cur) ==
    LET p == FindIn(s, Digits, cur)
        q == IF p = 0 THEN 0 ELSE FindChar(s, "?", p + 1)
        e == IF q = 0 THEN 0 ELSE FirstOptionAhead(s, q + 1)
    IN  IF e = 0 THEN <<>>
        ELSE <<SubSeq(s, p, e - 1)>> \o McMatchesFrom(s, e)

\* The lookahead (?=\n|[A-D]\)|$) under re.IGNORECASE at index u
OptionEndAhead(s, u) ==
    \/ u > Len(s)
    \/ CharAt(s, u) = "\n"
    \/ /\ u + 1 <= Len(s)
       /\ LowerChar(CharAt(s, u)) \in {"a", "b", "c", "d"}
       /\ CharAt(s, u + 1) = ")"

RECURSIVE FirstOptionEnd(_, _)
FirstOptionEnd(s, u) == IF OptionEndAhead(s, u) THEN u ELSE FirstOptionEnd(s, u + 1)

\* re.findall(option_pattern, text_after_question, re.IGNORECASE) from index cur
RECURSIVE OptionMatchesFrom(_, _)
OptionMatchesFrom(s, cur) ==
    IF cur + 1 > Len(s) THEN <<>>
    ELSE LET marker == /\ LowerChar(CharAt(s, cur)) \in {"a", "b", "c", "d"}
                       /\ CharAt(s, cur + 1) = ")"
             g == IF marker THEN GroupStart(s, cur + 2) ELSE 0
         IN  IF g = 0 THEN OptionMatchesFrom(s, cur + 1)
             ELSE LET u == FirstOptionEnd(s, g + 1)
                  IN  <<SubSeq(s, g, u - 1)>> \o OptionMatchesFrom(s, u)

_extract_options_for_question(txt, question) ==
    LET question_index == Find(txt, question)
        from == question_index + Len(question)
        upto == IF from + 499 > Len(txt) THEN Len(txt) ELSE from + 499
        text_after_question == SubSeq(txt, from, upto)
        option_matches == OptionMatchesFrom(text_after_question, 1)
    IN  IF question_index = 0 THEN <<>>
        ELSE [k \in 1..Len(option_matches) |-> Strip(option_matches[k])]

\* Index of the first character of the line that holds index i, not before lo
RECURSIVE LineStart(_, _, _)
LineStart(s, i, lo) ==
    IF i <= lo \/ CharAt(s, i - 1) = "\n" THEN i ELSE LineStart(s, i - 1, lo)

\* re.findall(fill_blank_pattern, text) from index cur: a match runs from the
\* start of the line (or the end of the previous match) over the next run of "_"
RECURSIVE BlankMatchesFrom(_, _)
BlankMatchesFrom(s, cur) ==
    LET u == FindChar(s, "_", cur)
        p == LineStart(s, u, cur)
        v == SkipIn(s, {"_"}, u) - 1
    IN  IF u = 0 THEN <<>>
        ELSE <<SubSeq(s, p, v)>> \o BlankMatchesFrom(s, v + 1)

\* The end of a match of numbered_questions that starts at the digit at p,
\* 0 if there is none: digits, an optional ".", whitespace, then the first "?"
\* with no newline before it
NumberedEnd(s, p) ==
    LET d == SkipIn(s, Digits, p)
        a == IF d <= Len(s) /\ CharAt(s, d) = "." THEN d + 1 ELSE d
        w == FirstNonSpace(s, a)
        q == FindChar(s, "?", w)
    IN  IF q # 0 /\ q <= EndOfLine(s, w) THEN q ELSE 0

\* re.findall(numbered_questions, text) from index cur
RECURSIVE NumberedMatchesFrom(_, _)
NumberedMatchesFrom(s, cur) ==
    LET p == FindIn(s, Digits, cur)
    IN  IF p = 0 THEN <<>>
        ELSE IF NumberedEnd(s, p) = 0 THEN NumberedMatchesFrom(s, p + 1)
        ELSE <<SubSeq(s, p, NumberedEnd(s, p))>>
                 \o NumberedMatchesFrom(s, NumberedEnd(s, p) + 1)

_determine_question_type_DateFirst(question) ==
    LET question_lower == Lower(question)
    IN  IF AnyIn({"date", "when"}, question_lower) THEN "date"
        ELSE IF AnyIn({"explain", "describe", "elaborate", "why", "how"}, question_lower)
        THEN "long_answer"
        ELSE IF AnyIn({"rate", "scale", "score", "1-5", "1-10"}, question_lower)
        THEN "linear_scale"
        ELSE IF AnyIn({"select all", "check all", "multiple"}, question_lower)
        THEN "checkbox"
        ELSE IF AnyIn({"time", "hour"}, question_lower) THEN "time"
        ELSE "short_answer"

_determine_question_type(question) ==
    LET question_lower == Lower(question)
    IN  IF AnyIn({"explain", "describe", "elaborate", "why", "how"}, question_lower)
        THEN "long_answer"
        ELSE IF AnyIn({"rate", "scale", "score", "1-5", "1-10"}, question_lower)
        THEN "linear_scale"
        ELSE IF AnyIn({"select all", "check all", "multiple"}, question_lower)
        THEN "checkbox"
        ELSE IF AnyIn({"date", "when"}, question_lower) THEN "date"
        ELSE IF AnyIn({"time", "hour"}, question_lower) THEN "time"
        ELSE "short_answer"

\* extract_questions, "Extract multiple choice questions"
McQuestions(txt) ==
    LET mc_matches == McMatchesFrom(txt, 1)
    IN  [k \in 1..Len(mc_matches) |->
            [type |-> "multiple_choice",
             question |-> Strip(mc_matches[k]),
             options |-> _extract_options_for_question(txt, mc_matches[k]),
             required |-> TRUE]]

\* extract_questions, "Extract fill-in-the-blank questions"
BlankQuestions(txt) ==
    LET blank_matches == BlankMatchesFrom(txt, 1)
    IN  Flatten([k \in 1..Len(blank_matches) |->
            IF Strip(blank_matches[k]) # "" /\ Contains(blank_matches[k], "?")
            THEN <<[type |-> "short_answer",
                    question |-> Strip(blank_matches[k]),
                    required |-> TRUE]>>
            ELSE <<>>])

\* extract_questions, "Extract numbered questions that aren't multiple choice"
NumberedQuestions(txt) ==
    LET mc_matches == McMatchesFrom(txt, 1)
        numbered_matches == NumberedMatchesFrom(txt, 1)
    IN  Flatten([k \in 1..Len(numbered_matches) |->
            IF \E m \in 1..Len(mc_matches) : Contains(numbered_matches[k], mc_matches[m])
            THEN <<>>
            ELSE <<[type |-> _determine_question_type(numbered_matches[k]),
                    question |-> Strip(numbered_matches[k]),
                    required |-> TRUE]>>])

\* The starts of the lines of s, in order
LineStarts(s) ==
    {i \in 1..Len(s) : i = 1 \/ CharAt(s, i - 1) = "\n"}

\* re.search(r"^#\s*(.+?)$", text, re.MULTILINE): the group of the first match
TitleAt(s, i) ==
    LET g == IF CharAt(s, i) = "#" THEN GroupStart(s, i + 1) ELSE 0
    IN  IF g = 0 THEN <<>> ELSE <<SubSeq(s, g, EndOfLine(s, g))>>

\* re.search(r"^##?\s*Description:?\s*(.+?)$", text, MULTILINE | IGNORECASE)
DescriptionAt(s, i) ==
    LET h == IF CharAt(s, i) # "#" THEN 0
             ELSE IF i + 1 <= Len(s) /\ CharAt(s, i + 1) = "#" THEN i + 2 ELSE i + 1
        w == IF h = 0 THEN 0 ELSE FirstNonSpace(s, h)
        label == w # 0 /\ w + 10 <= Len(s) /\ Lower(SubSeq(s, w, w + 10)) = "description"
        c == w + 11
        colon == label /\ c <= Len(s) /\ CharAt(s, c) = ":"
        g == IF ~label THEN 0
             ELSE IF colon /\ GroupStart(s, c + 1) # 0 THEN GroupStart(s, c + 1)
             ELSE IF colon THEN c
             ELSE GroupStart(s, c)
    IN  IF g = 0 THEN <<>> ELSE <<SubSeq(s, g, EndOfLine(s, g))>>

\* title_match.group(1) if title_match else "Extracted Form"
TitleOf(s) ==
    LET hits == {i \in LineStarts(s) : TitleAt(s, i) # <<>>}
    IN  IF hits = {} THEN "Extracted Form"
        ELSE TitleAt(s, CHOOSE i \in hits : \A j \in hits : i <= j)[1]

\* description_match.group(1) if description_match else "Form created from document"
DescriptionOf(s) ==
    LET hits == {i \in LineStarts(s) : DescriptionAt(s, i) # <<>>}
    IN  IF hits = {} THEN "Form created from document"
        ELSE DescriptionAt(s, CHOOSE i \in hits : \A j \in hits : i <= j)[1]

\* list(set([q["type"] for q in questions])), as the set of its elements
QuestionTypes(qs) == {qs[k].type : k \in 1..Len(qs)}

CountOfType(qs, t) == Cardinality({k \in 1..Len(qs) : qs[k].type = t})

\* extract_questions(text): the returned dictionary
ExtractReturn(txt) ==
    LET qs == McQuestions(txt) \o BlankQuestions(txt) \o NumberedQuestions(txt)
    IN  [status |-> "success",
         form_structure |->
             [title |-> TitleOf(txt),
              description |-> DescriptionOf(txt),
              questions |-> qs,
              total_questions |-> Len(qs),
              question_types |-> QuestionTypes(qs)],
         extraction_stats |->
             [total_questions |-> Len(qs),
              multiple_choice |-> CountOfType(qs, "multiple_choice"),
              short_answer |-> CountOfType(qs, "short_answer"),
              long_answer |-> CountOfType(qs, "long_answer")]]

\* extract_questions(text, tool_context)
ExtractQuestions ==
    LET ret == ExtractReturn(text)
    IN  /\ call' = "extract_questions"
        /\ result' = ret
        /\ state' = Store(state, [extracted_questions |-> ret.form_structure.questions,
                                  form_structure |-> ret.form_structure])
        /\ sent' = <<>>
        /\ UNCHANGED <<form_structure, questions_arg, use_standalone, modifications,
                       hash_seed, text,
                           now, args, writes,
                       invocations>>

\* Inputs of the parser: documents of at most MaxLines lines
LinePool ==
    { "# Customer Survey",
      "## Description: About you",
      "1. Explain your reasoning?",
      "2. Rate this 1-5?",
      "3. Pick one?",
      "A) Red",
      "b) Dark blue",
      "4. What is your name? ____",
      "5. When did you select all dates?",
      "6. What time and date?",
      "7. How would you rate the time?",
      "8. Your age?",
      "9. Score multiple items?",
      "Thank you" }

RECURSIVE JoinLines(_)
JoinLines(lines) ==
    IF lines = <<>> THEN ""
    ELSE IF Len(lines) = 1 THEN lines[1]
    ELSE lines[1] \o "\n" \o JoinLines(Tail(lines))

Documents == {JoinLines(lines) : lines \in SeqsUpTo(LinePool, MaxLines)}

InitParser ==
    /\ form_structure = [title |-> "Survey", description |-> "", questions |-> <<>>]
    /\ state = EmptyState
    /\ call = "none"
    /\ result = NoResult
    /\ questions_arg = <<>>
    /\ use_standalone = FALSE
    /\ modifications = <<>>
    /\ hash_seed = 0
    /\ text \in Documents
    /\ now = 0
    /\ args = EmptyState
    /\ writes = <<>>
    /\ sent = <<>>
    /\ invocations = <<>>

NextParser == ExtractQuestions

SpecParser == InitParser /\ [][NextParser]_vars

\* A session that extracts the questions of a document and adds them to a
\* form: add_questions_to_form is given the questions extract_questions left
\* in the session state
AddExtractedQuestions ==
    /\ "extracted_questions" \in DOMAIN state
    /\ AddQuestionsCall(state.extracted_questions)

InitPipeline ==
    /\ form_structure = [title |-> "Survey", description |-> "", questions |-> <<>>]
    /\ state = EmptyState
    /\ call = "none"
    /\ result = NoResult
    /\ questions_arg = <<>>
    /\ use_standalone \in BOOLEAN
    /\ modifications = <<>>
    /\ hash_seed = 0
    /\ text \in Documents
    /\ now = 0
    /\ args = EmptyState
    /\ writes = <<>>
    /\ sent = <<>>
    /\ invocations = <<>>

NextPipeline == ExtractQuestions \/ AddExtractedQuestions

SpecPipeline == InitPipeline /\ [][NextPipeline]_vars

-----------------------------------------------------------------------------
(* forms_agent_optimized.py: the tool callbacks of a session *)

DigitValue == [c \in Digits |-> CHOOSE n \in 0..9 : ToString(n) = c]

\* datetime.isoformat(): the text of a time
IsoFormat(t) == ToString(t)

RECURSIVE ParseFrom(_, _, _)
ParseFrom(s, i, acc) ==
    IF i > Len(s) THEN acc ELSE ParseFrom(s, i + 1, acc * 10 + DigitValue[CharAt(s, i)])

\* datetime.fromisoformat(): the time a text denotes
FromIsoFormat(s) == ParseFrom(s, 1, 0)

\* The tools of the creator and editor agents the callbacks are attached to
SessionTools ==
    {"create_google_form", "setup_form_settings", "add_questions_to_form",
     "get_form_details", "update_form_info", "modify_questions", "delete_form",
     "get_form_responses"}

\* The tools that send a write to the form service when they run
WriteTools ==
    {"create_google_form", "setup_form_settings", "add_questions_to_form",
     "update_form_info", "modify_questions", "delete_form"}

\* before_tool_callback: the tools the rate limit is applied to
RateLimitedTools == {"create_google_form", "update_form_info", "add_questions_to_form"}

\* time_diff < 1.0, in milliseconds
RateLimitWindow == 1000

\* not v, for a value that is None or a str
Falsy(v) == v = None \/ v = ""

\* f"tool_cache_{tool_name}_{hash(str(args))}"
CacheKey(tool_name, a) == "tool_cache_" \o tool_name \o "_" \o ToString(Hash(ToString(a)))

MissingArgumentsError ==
    [result |-> "error",
     message |-> "Title and description are required for form creation"]

RateLimitError ==
    [result |-> "error",
     message |-> "API rate limit exceeded. Please wait a moment and try again."]

\* A variant that counts the call before it checks the rate limit
before_tool_callback_CountsRejected(tool_name, a, st, t) ==
    IF /\ tool_name = "create_google_form"
       /\ Falsy(Get(a, "title", None)) \/ Falsy(Get(a, "description", None))
    THEN [response |-> <<MissingArgumentsError>>, state |-> st]
    ELSE IF CacheKey(tool_name, a) \in DOMAIN st
    THEN [response |-> <<st[CacheKey(tool_name, a)]>>, state |-> st]
    ELSE IF /\ tool_name \in RateLimitedTools
            /\ "last_api_call_time" \in DOMAIN st
            /\ st.last_api_call_time # ""
            /\ t - FromIsoFormat(st.last_api_call_time) < RateLimitWindow
    THEN [response |-> <<RateLimitError>>,
          state |-> Store(st, [api_call_count |-> Get(st, "api_call_count", 0) + 1])]
    ELSE [response |-> <<>>,
          state |-> Store(st, [last_api_call_time |-> IsoFormat(t),
                               api_call_count |-> Get(st, "api_call_count", 0) + 1])]

\* before_tool_callback(tool, args, tool_context) at time t: the dictionary it
\* returns, none when the tool is to run, and the session state it leaves
before_tool_callback(tool_name, a, st, t) ==
    IF /\ tool_name = "create_google_form"
       /\ Falsy(Get(a, "title", None)) \/ Falsy(Get(a, "description", None))
    THEN [response |-> <<MissingArgumentsError>>, state |-> st]
    ELSE IF CacheKey(tool_name, a) \in DOMAIN st
    THEN [response |-> <<st[CacheKey(tool_name, a)]>>, state |-> st]
    ELSE IF /\ tool_name \in RateLimitedTools
            /\ "last_api_call_time" \in DOMAIN st
            /\ st.last_api_call_time # ""
            /\ t - FromIsoFormat(st.last_api_call_time) < RateLimitWindow
    THEN [response |-> <<RateLimitError>>, state |-> st]
    ELSE [response |-> <<>>,
          state |-> Store(st, [last_api_call_time |-> IsoFormat(t),
                               api_call_count |-> Get(st, "api_call_count", 0) + 1])]

\* after_tool_callback(tool, args, tool_context, tool_response) at time t: the
\* session state it leaves
after_tool_callback(tool_name, a, st, tool_response, t) ==
    LET outcome == Get(tool_response, "result", None)
        cached == IF outcome = "success"
                  THEN Store(st, CacheKey(tool_name, a) :> tool_response)
                  ELSE st
        created == IF /\ tool_name = "create_google_form"
                      /\ outcome = "success"
                      /\ ~Falsy(Get(tool_response, "form_id", None))
                   THEN Store(cached, [current_form_id |-> tool_response.form_id,
                                       form_creation_time |-> IsoFormat(t)])
                   ELSE cached
        failed == IF outcome = "error"
                  THEN Store(created,
                         [error_count |-> Get(st, "error_count", 0) + 1,
                          last_error |-> [tool |-> tool_name,
                                          error |-> Get(tool_response, "message", None),
                                          timestamp |-> IsoFormat(t)]])
                  ELSE created
        retried == IF /\ outcome = "error"
                      /\ Contains(Lower(Get(tool_response, "message", "")), "rate limit")
                   THEN Store(failed, [retry_after |-> IsoFormat(t)])
                   ELSE failed
    IN  Store(retried,
              [tool_success_count |-> Get(st, "tool_success_count", 0)
                                        + (IF outcome = "success" THEN 1 ELSE 0)])

\* The dictionary a tool returns when it runs and the form service answers
ToolResponse(tool_name, outcome) ==
    IF outcome = "ok" THEN [status |-> "success"]
    ELSE [status |-> "error", error_message |-> HttpMessage,
          error_code |-> HttpStatus, error_type |-> "HttpError"]

\* The arguments the agent passes to a tool
ToolArgs(tool_name) ==
    IF tool_name = "create_google_form"
    THEN {[title |-> "Survey", description |-> "About the survey"],
          [title |-> "Survey", description |-> ""]}
    ELSE {[form_id |-> "form1"]}

\* One tool call of the session: before_tool_callback, the tool unless the
\* callback returned a dictionary, then after_tool_callback
ToolCall ==
    \E tool_name \in SessionTools, outcome \in RemoteOutcomes :
      \E a \in ToolArgs(tool_name) :
        LET before == before_tool_callback(tool_name, a, state, now)
            runs == before.response = <<>>
            response == IF runs THEN ToolResponse(tool_name, outcome)
                        ELSE before.response[1]
            written == runs /\ tool_name \in WriteTools
        IN  /\ Get(state, "api_call_count", 0) + Get(state, "error_count", 0) < MaxCalls
            /\ call' = tool_name
            /\ args' = a
            /\ result' = response
            /\ state' = after_tool_callback(tool_name, a, before.state, response, now)
            /\ writes' = IF written THEN Append(writes, [tool |-> tool_name, time |-> now])
                         ELSE writes
            /\ sent' = IF written THEN <<[method |-> tool_name]>> ELSE <<>>
            /\ UNCHANGED <<form_structure, questions_arg, use_standalone, modifications,
                           hash_seed, text, now,
                           invocations>>

\* Time passes between two tool calls
Tick ==
    \E d \in {500, 1000} :
        /\ now + d <= MaxTime
        /\ now' = now + d
        /\ UNCHANGED <<form_structure, state, call, result, questions_arg, use_standalone,
                       modifications, hash_seed, text, args, writes, sent,
                       invocations>>

InitSession ==
    /\ form_structure = [title |-> "Survey", description |-> "", questions |-> <<>>]
    /\ state = EmptyState
    /\ call = "none"
    /\ result = NoResult
    /\ questions_arg = <<>>
    /\ use_standalone = FALSE
    /\ modifications = <<>>
    /\ hash_seed \in HashSeeds
    /\ text = ""
    /\ now = 0
    /\ args = EmptyState
    /\ writes = <<>>
    /\ sent = <<>>
    /\ invocations = <<>>

NextSession == ToolCall \/ Tick

SpecSession == InitSession /\ [][NextSession]_vars

-----------------------------------------------------------------------------
(* form_creator/tools.py and google_forms_api.py: creating a form *)

UpperOf ==
    [c \in {CharAt(LowerCase, i) : i \in 1..26} |->
        CharAt(UpperCase, CHOOSE i \in 1..26 : CharAt(LowerCase, i) = c)]

IsLetter(c) == c \in DOMAIN UpperOf \/ c \in DOMAIN LowerOf

\* str.title(): the first letter of every word in upper case, the others in lower
RECURSIVE TitleCaseFrom(_, _)
TitleCaseFrom(s, i) ==
    IF i > Len(s) THEN ""
    ELSE LET c == CharAt(s, i)
             starts == i = 1 \/ ~IsLetter(CharAt(s, i - 1))
             d == IF starts /\ c \in DOMAIN UpperOf THEN UpperOf[c]
                  ELSE IF ~starts THEN LowerChar(c)
                  ELSE c
         IN  d \o TitleCaseFrom(s, i + 1)

TitleCase(s) == TitleCaseFrom(s, 1)

\* The description a form is created with: generated when none is given
EffectiveDescription(title, description, form_type) ==
    IF Falsy(description) \/ Strip(description) = ""
    THEN TitleCase(form_type) \o " created automatically - " \o title
    ELSE description

CreateCall(body) == [method |-> "forms.create", body |-> body]

GetCall(form_id) == [method |-> "forms.get", formId |-> form_id]

\* What the form service answers to a create request
CreateReply(form_id, title) ==
    [formId |-> form_id,
     responderUri |-> "https://docs.google.com/forms/d/e/" \o form_id \o "/viewform",
     info |-> [title |-> title, documentTitle |-> title]]

EditUrl(form_id) == "https://docs.google.com/forms/d/" \o form_id \o "/edit"

QuizSettingsRequest ==
    [updateSettings |-> [settings |-> [quizSettings |-> [isQuiz |-> TRUE]],
                         updateMask |-> "quizSettings.isQuiz"]]

\* _create_form_with_direct_api: the requests of the batch update after the create
DirectUpdateRequests(description, form_type) ==
    (IF ~Falsy(description) /\ Strip(description) # ""
     THEN <<[updateFormInfo |-> [info |-> [description |-> description],
                                 updateMask |-> "description"]]>>
     ELSE <<>>)
    \o (IF Lower(form_type) = "quiz" THEN <<QuizSettingsRequest>> ELSE <<>>)

\* A variant that goes on to the batch update whatever the create call gave
DirectCreateCalls_UpdatesAfterFailure(title, description, form_type, form_id, o) ==
    LET create == [request |-> CreateCall([info |-> [title |-> title]]),
                   outcome |-> o.create]
        updates == DirectUpdateRequests(description, form_type)
    IN  IF updates = <<>> THEN <<create>>
        ELSE <<create, [request |-> BatchUpdate(form_id, updates), outcome |-> o.update]>>

\* _create_form_with_direct_api: the calls made to the form service, in order,
\* each with the outcome the service gave it
DirectCreateCalls(title, description, form_type, form_id, o) ==
    LET create == [request |-> CreateCall([info |-> [title |-> title]]),
                   outcome |-> o.create]
        updates == DirectUpdateRequests(description, form_type)
    IN  IF o.create # "ok" \/ updates = <<>> THEN <<create>>
        ELSE <<create, [request |-> BatchUpdate(form_id, updates), outcome |-> o.update]>>

\* _create_form_with_direct_api: the returned dictionary
DirectCreateReturn(title, description, form_type, form_id, o) ==
    LET calls == DirectCreateCalls(title, description, form_type, form_id, o)
    IN  IF \E i \in 1..Len(calls) : calls[i].outcome # "ok"
        THEN [status |-> "error",
              error_message |-> "Google Forms API error: " \o HttpMessage,
              error_code |-> HttpStatus,
              error_type |-> "HttpError"]
        ELSE [status |-> "success",
              form_id |-> form_id,
              form_url |-> EditUrl(form_id),
              responder_url |-> CreateReply(form_id, title).responderUri,
              form_info |-> CreateReply(form_id, title).info,
              form_type |-> form_type,
              message |-> "Successfully created " \o form_type \o ": " \o title]

\* GoogleFormsAPI.update_form_info(form_id, title, description): the calls made
\* to the form service; current_info is what the service holds for the form
UpdateFormInfoCalls(form_id, title, description, current_info, o) ==
    LET reads == Falsy(title) \/ Falsy(description)
        get == [request |-> GetCall(form_id), outcome |-> o.get]
        title2 == IF Falsy(title) THEN Get(current_info, "title", "Updated Form") ELSE title
        description2 == IF Falsy(description)
                        THEN Get(current_info, "description", "Form updated - " \o title2)
                        ELSE description
        update == [request |-> BatchUpdate(form_id,
                      <<[updateFormInfo |-> [info |-> [title |-> title2,
                                                       description |-> description2],
                                             updateMask |-> "title,description"]]>>),
                   outcome |-> o.update]
    IN  IF reads /\ o.get # "ok" THEN <<get>>
        ELSE IF reads THEN <<get, update>>
        ELSE <<update>>

\* GoogleFormsAPI.configure_settings(form_id, {"is_quiz": True}): the calls made
ConfigureQuizCalls(form_id, o) ==
    <<[request |-> BatchUpdate(form_id, <<QuizSettingsRequest>>), outcome |-> o.settings]>>

\* GoogleFormsAPI.create_form(title, description, form_type): the calls made to
\* the form service, in order
ApiCreateCalls(title, description, form_type, form_id, o) ==
    LET described == EffectiveDescription(title, description, form_type)
        create == [request |-> CreateCall([info |-> [title |-> title,
                                                     documentTitle |-> title]]),
                   outcome |-> o.create]
    IN  IF o.create # "ok" THEN <<create>>
        ELSE <<create>>
             \o (IF ~Falsy(described) /\ Strip(described) # ""
                 THEN UpdateFormInfoCalls(form_id, title, described,
                                          CreateReply(form_id, title).info, o)
                 ELSE <<>>)
             \o (IF Lower(form_type) = "quiz" THEN ConfigureQuizCalls(form_id, o)
                 ELSE <<>>)

\* GoogleFormsAPI.create_form: the returned dictionary
ApiCreateReturn(title, description, form_type, form_id, o) ==
    IF o.create # "ok"
    THEN [result |-> "error",
          message |-> "Google Forms API error: " \o HttpMessage,
          error_code |-> HttpStatus]
    ELSE [result |-> "success",
          form_id |-> form_id,
          form_url |-> EditUrl(form_id),
          responder_url |-> CreateReply(form_id, title).responderUri,
          form_info |-> CreateReply(form_id, title).info,
          description |-> EffectiveDescription(title, description, form_type),
          form_type |-> form_type,
          message |-> "Successfully created " \o form_type \o ": " \o title]

\* _create_form_with_standalone_api: the returned dictionary
StandaloneCreateReturn(title, description, form_type, form_id, o) ==
    LET api == ApiCreateReturn(title, description, form_type, form_id, o)
    IN  IF api.result = "success"
        THEN [status |-> "success",
              form_id |-> api.form_id,
              form_url |-> api.form_url,
              responder_url |-> api.responder_url,
              form_info |-> api.form_info,
              form_type |-> form_type,
              message |-> api.message]
        ELSE [status |-> "error",
              error_message |-> api.message,
              error_code |-> api.error_code,
              error_type |-> "APIError"]

FormTitles == {"Survey", ""}
FormDescriptions == {None, "", "  ", "About the survey"}
FormTypes == {"form", "quiz", "QUIZ"}
RemoteCalls == {"create", "get", "update", "settings"}

\* create_google_form(title, description, form_type, tool_context)
CreateGoogleForm ==
    \E title \in FormTitles, description \in FormDescriptions, form_type \in FormTypes,
       form_id \in FormIds, o \in [RemoteCalls -> RemoteOutcomes] :
        LET described == EffectiveDescription(title, description, form_type)
            ret == IF use_standalone
                   THEN StandaloneCreateReturn(title, described, form_type, form_id, o)
                   ELSE DirectCreateReturn(title, described, form_type, form_id, o)
            calls == IF use_standalone
                     THEN ApiCreateCalls(title, described, form_type, form_id, o)
                     ELSE DirectCreateCalls(title, described, form_type, form_id, o)
        IN  /\ call' = "create_google_form"
            /\ args' = [title |-> title, description |-> description,
                        form_type |-> form_type]
            /\ result' = ret
            /\ sent' = calls
            /\ state' = IF ret.status = "success"
                        THEN Store(state,
                               [form_id |-> ret.form_id,
                                form_url |-> ret.form_url,
                                responder_url |-> ret.responder_url,
                                created_form |-> IF use_standalone THEN ret.form_info
                                                 ELSE CreateReply(form_id, title),
                                form_type |-> form_type])
                        ELSE state
            /\ UNCHANGED <<form_structure, questions_arg, use_standalone, modifications,
                           hash_seed, text, now, writes,
                           invocations>>

InitForm ==
    /\ form_structure = [title |-> "Survey", description |-> "", questions |-> <<>>]
    /\ state = EmptyState
    /\ call = "none"
    /\ result = NoResult
    /\ questions_arg = <<>>
    /\ use_standalone \in BOOLEAN
    /\ modifications = <<>>
    /\ hash_seed \in HashSeeds
    /\ text = ""
    /\ now = 0
    /\ args = EmptyState
    /\ writes = <<>>
    /\ sent = <<>>
    /\ invocations = <<>>

NextForm == CreateGoogleForm

SpecForm == InitForm /\ [][NextForm]_vars

-----------------------------------------------------------------------------
(* google_forms_tool.py: the add-questions tool of the stand-alone agent *)

\* add_questions_tool: a question after its missing fields were filled in
AutoCompleted(q) ==
    LET titled == IF Falsy(Get(q, "title", None)) THEN Store(q, [title |-> "Question"])
                  ELSE q
        marked == IF "required" \notin DOMAIN titled THEN Store(titled, [required |-> FALSE])
                  ELSE titled
    IN  IF Falsy(Get(marked, "type", None)) THEN Store(marked, [type |-> "short_answer"])
        ELSE marked

\* add_questions_tool: the list the caller holds once the tool has returned
QuestionsAfterTool(qs) == [k \in 1..Len(qs) |-> AutoCompleted(qs[k])]

\* add_questions_tool: the returned dictionary
AddQuestionsToolReturn(form_id, qs, outcome) ==
    IF qs = <<>> THEN [result |-> "error", message |-> "No questions provided"]
    ELSE ApiAddQuestionsReturn(form_id, QuestionsAfterTool(qs), outcome)

\* add_questions_tool(form_id, questions, tool_context)
AddQuestionsTool ==
    \E form_id \in FormIds, outcome \in RemoteOutcomes :
        LET ret == AddQuestionsToolReturn(form_id, questions_arg, outcome)
            completed == QuestionsAfterTool(questions_arg)
            requests == ApiRequests(completed)
        IN  /\ call' = "add_questions_tool"
            /\ sent' = IF requests = <<>> THEN <<>>
                       ELSE <<BatchUpdate(form_id, requests)>>
            /\ result' = ret
            /\ state' = IF ret.result = "success"
                        THEN Store(state,
                               [last_added_questions |->
                                   [form_id |-> form_id,
                                    questions_count |-> Len(completed),
                                    questions |-> completed]])
                        ELSE state
            /\ questions_arg' = completed
            /\ UNCHANGED <<form_structure, use_standalone, modifications, hash_seed, text,
                           now, args, writes,
                           invocations>>

InitTool == InitCreator

NextTool == AddQuestionsTool

SpecTool == InitTool /\ [][NextTool]_vars

-----------------------------------------------------------------------------
(* callback_optimizations.py: the model callbacks of a session *)

\* The agents the callbacks are attached to
AgentNames == {"OptimizedFormCreatorAgent", "OptimizedFormsAgent"}

\* str(llm_request.contents), for a request holding one user message
StrContents(message) ==
    "[Content(parts=[Part(text='" \o message \o "')], role='user')]"

\* f"llm_cache_{hash(...)}"
LlmCacheKey(s) == "llm_cache_" \o ToString(Hash(s))

SensitivePatterns == {"password", "credit card", "ssn", "social security"}

SensitiveRefusal ==
    "I cannot process requests containing sensitive personal information "
        \o "like passwords, credit cards, or social security numbers."

IdChars == {CharAt(Alphabet, i) : i \in 3..Len(Alphabet)} \cup {"_", "-"}

\* The end of the run of identifier characters that starts at i
RECURSIVE RunEnd(_, _)
RunEnd(s, i) ==
    IF i > Len(s) \/ CharAt(s, i) \notin IdChars THEN i - 1 ELSE RunEnd(s, i + 1)

\* re.search(r'[a-zA-Z0-9_-]{20,}', s): the match, none when there is none
FormIdIn(s) ==
    LET starts == {i \in 1..Len(s) : RunEnd(s, i) - i + 1 >= 20}
    IN  IF starts = {} THEN <<>>
        ELSE LET i == CHOOSE j \in starts : \A m \in starts : j <= m
             IN  <<SubSeq(s, i, RunEnd(s, i))>>

\* before_model_callback: the message the model is asked, the context of the
\* parsed document added for the creator agent
PromptFor(agent_name, message, st) ==
    IF agent_name = "FormCreatorAgent" /\ "parsed_content" \in DOMAIN st
    THEN message \o "\n\nContext from document parsing: " \o ToString(st.parsed_content)
    ELSE message

\* before_model_callback(callback_context, llm_request): the response it
\* returns in place of the model's, none when the model is to be called
before_model_callback(agent_name, message, st) ==
    IF LlmCacheKey(StrContents(message)) \in DOMAIN st
    THEN <<[text |-> st[LlmCacheKey(StrContents(message))], source |-> "cache"]>>
    ELSE IF AnyIn(SensitivePatterns, Lower(PromptFor(agent_name, message, st)))
    THEN <<[text |-> SensitiveRefusal, source |-> "filter"]>>
    ELSE <<>>

\* after_model_callback(callback_context, llm_response) at time t: the session
\* state it leaves
after_model_callback(agent_name, st, response_text, t) ==
    LET cached == IF response_text # ""
                  THEN Store(st, LlmCacheKey(response_text) :> response_text)
                  ELSE st
        extracted == IF /\ agent_name = "FormCreatorAgent"
                        /\ Contains(Lower(response_text), "form")
                        /\ FormIdIn(response_text) # <<>>
                     THEN Store(cached, [extracted_form_id |-> FormIdIn(response_text)[1]])
                     ELSE cached
    IN  Store(extracted, [last_llm_response_length |-> Len(response_text),
                          last_llm_timestamp |-> IsoFormat(t)])

\* The messages of the user and the answers of the model
UserMessages == {"make a survey", "add a question", "my password is 1234"}
ModelAnswers == {"Which questions?", "", StrContents("add a question")}

\* One request to the model: before_model_callback, the model unless the
\* callback returned a response, and after_model_callback on the model's answer
ModelCall ==
    \E agent_name \in AgentNames, message \in UserMessages, answer \in ModelAnswers :
        LET before == before_model_callback(agent_name, message, state)
            asked == before = <<>>
        IN  /\ Len(sent) < MaxCalls
            /\ call' = "llm_request"
            /\ args' = [agent_name |-> agent_name]
            /\ text' = message
            /\ result' = IF asked THEN [text |-> answer, source |-> "model"]
                         ELSE before[1]
            /\ sent' = IF asked
                       THEN Append(sent,
                              [contents |-> message,
                               prompt |-> PromptFor(agent_name, message, state),
                               response |-> answer])
                       ELSE sent
            /\ state' = IF asked THEN after_model_callback(agent_name, state, answer, now)
                        ELSE state
            /\ UNCHANGED <<form_structure, questions_arg, use_standalone, modifications,
                           hash_seed, now, writes,
                           invocations>>

InitLlm == InitSession

NextLlm == ModelCall

SpecLlm == InitLlm /\ [][NextLlm]_vars

-----------------------------------------------------------------------------
(* callback_optimizations.py: before_tool_callback invoked concurrently *)

\* The invocations that share the session state
Invocations == 1..MaxInvocations

\* before_tool_callback up to its return or to the end of the rate check: the
\* arguments are validated, tool_context.state.to_dict() is taken as
\* current_state, and the cache and the time of the last call are looked up
\* in it
CheckCall(p) ==
    \E tool_name \in RateLimitedTools :
      \E a \in ToolArgs(tool_name) :
        LET decision == before_tool_callback(tool_name, a, state, now)
            proceeds == decision.response = <<>>
        IN  /\ invocations[p].pc = "idle"
            /\ invocations' =
                  [invocations EXCEPT ![p] =
                      [pc |-> IF proceeds THEN "checked" ELSE "done",
                       tool |-> tool_name,
                       current_state |-> state,
                       response |-> decision.response]]
            /\ writes' = IF proceeds
                         THEN Append(writes, [tool |-> tool_name, time |-> now])
                         ELSE writes
            /\ call' = tool_name
            /\ args' = a
            /\ UNCHANGED <<form_structure, state, result, questions_arg, use_standalone,
                           modifications, hash_seed, text, now, sent>>

\* tool_context.state["last_api_call_time"] = datetime.now().isoformat()
WriteCallTime(p) ==
    /\ invocations[p].pc = "checked"
    /\ state' = Store(state, [last_api_call_time |-> IsoFormat(now)])
    /\ invocations' = [invocations EXCEPT ![p].pc = "timed"]
    /\ UNCHANGED <<form_structure, call, result, questions_arg, use_standalone,
                   modifications, hash_seed, text, now, args, writes, sent>>

\* tool_context.state["api_call_count"] = current_state.get("api_call_count", 0) + 1
WriteCallCount(p) ==
    /\ invocations[p].pc = "timed"
    /\ state' = Store(state, [api_call_count |->
                    Get(invocations[p].current_state, "api_call_count", 0) + 1])
    /\ invocations' = [invocations EXCEPT ![p].pc = "done"]
    /\ UNCHANGED <<form_structure, call, result, questions_arg, use_standalone,
                   modifications, hash_seed, text, now, args, writes, sent>>

InitRace ==
    /\ form_structure = [title |-> "Survey", description |-> "", questions |-> <<>>]
    /\ state = EmptyState
    /\ call = "none"
    /\ result = NoResult
    /\ questions_arg = <<>>
    /\ use_standalone = FALSE
    /\ modifications = <<>>
    /\ hash_seed \in HashSeeds
    /\ text = ""
    /\ now = 0
    /\ args = EmptyState
    /\ writes = <<>>
    /\ sent = <<>>
    /\ invocations = [p \in Invocations |-> [pc |-> "idle"]]

NextRace ==
    \/ \E p \in Invocations : CheckCall(p) \/ WriteCallTime(p) \/ WriteCallCount(p)
    \/ Tick

SpecRace == InitRace /\ [][NextRace]_vars

-----------------------------------------------------------------------------
(* Properties of the validator *)

HasValidation == "validation_result" \in DOMAIN state
Validation == state.validation_result

Title == Get(form_structure, "title", "")
Description == Get(form_structure, "description", "")
Questions == Get(form_structure, "questions", <<>>)
QuestionText(q) == Get(q, "question", "")

\* Every type label and every question text of the question pool
TypeLabels == {Lower(Get(q, "type", "")) : q \in QuestionPool}
QuestionTexts == {QuestionText(q) : q \in QuestionPool}

SuggestionIsTotal ==
    \A t \in TypeLabels, x \in QuestionTexts :
        _suggest_type_conversion(t, x) \in QuestionKind

\* C3: for every type label and question text the type-conversion suggestion
\* is a member of QuestionKind and never None, so check_question_types
\* succeeds, lists no question as unsupported and counts 0 unsupported.
C3_TotalTypeCoverage ==
    /\ SuggestionIsTotal
    /\ call = "check_question_types" =>
          /\ result.status = "success"
          /\ result.type_analysis.unsupported = <<>>
          /\ result.summary.unsupported = 0
          /\ \A k \in 1..Len(result.type_analysis.conversion_needed) :
                result.type_analysis.conversion_needed[k].suggested_type \in QuestionKind
          /\ Len(result.type_analysis.supported)
               + Len(result.type_analysis.conversion_needed) = Len(Questions)

\* A garbage label that is in no table went through the keyword fallback
C3_Witness ==
    /\ call = "check_question_types"
    /\ \E k \in 1..Len(result.type_analysis.conversion_needed) :
          /\ result.type_analysis.conversion_needed[k].original_type = "garbage"
          /\ result.type_analysis.conversion_needed[k].suggested_type = "long_answer"

\* C4: a report with is_valid true implies the size invariants; 101 questions
\* give the issue "exceeds maximum of 100 questions" with question_count 101
\* and an untruncated list; 100 questions and a 300 character title give no
\* issue.
C4_SizeInvariants ==
    HasValidation =>
        /\ Validation.is_valid =>
              /\ Title # "" /\ Len(Title) <= 300
              /\ Len(Description) <= 4096
              /\ Len(Questions) >= 1 /\ Len(Questions) <= 100
              /\ \A k \in 1..Len(Questions) :
                    /\ QuestionText(Questions[k]) # ""
                    /\ Len(QuestionText(Questions[k])) <= 4096
        /\ Len(Questions) = 101 =>
              /\ \E k \in 1..Len(Validation.issues) :
                    Contains(Validation.issues[k], "exceeds maximum of 100 questions")
              /\ ~Validation.is_valid
              /\ Validation.question_count = 101
              /\ Len(form_structure.questions) = 101
        /\ (Len(Questions) = 100 /\ Len(Title) = 300 /\ Len(Description) <= 4096) =>
              Validation.issues = <<>>

C4_Witness ==
    /\ HasValidation
    /\ Validation.is_valid
    /\ Len(Questions) = 100
    /\ Len(Title) = 300
    /\ Len(Description) = 4096

\* The invariants of a form structure other than a missing description and
\* duplicate question texts
OnlyAdvisoryDefects ==
    /\ Title # "" /\ Len(Title) <= 300
    /\ Len(Description) <= 4096
    /\ Len(Questions) >= 1 /\ Len(Questions) <= 100
    /\ \A k \in 1..Len(Questions) :
          LET q == Questions[k]
          IN  /\ Strip(QuestionText(q)) # ""
              /\ Len(QuestionText(q)) <= 4096
              /\ Get(q, "type", "") \in QuestionKind
              /\ Get(q, "type", "") \in ChoiceKinds =>
                    /\ Len(Get(q, "options", <<>>)) \in 2..20
                    /\ \A j \in 1..Len(q.options) : Len(q.options[j]) <= 1000

HasDuplicateTexts ==
    \E i, j \in 1..Len(Questions) :
        i < j /\ QuestionText(Questions[i]) = QuestionText(Questions[j])

\* C5: is_valid is true exactly when issues is empty; a structure whose only
\* defects are an empty description or duplicate texts is valid and the
\* defects are reported as warnings; validated_structure is the input when
\* valid and None otherwise.
C5_WarningsNeverBlock ==
    HasValidation =>
        /\ Validation.is_valid <=> (Validation.issues = <<>>)
        /\ OnlyAdvisoryDefects =>
              /\ Validation.is_valid
              /\ (Description = "") <=>
                    ("Form description is recommended for better user experience"
                        \in Range(Validation.warnings))
              /\ HasDuplicateTexts <=>
                    (\E k \in 1..Len(Validation.warnings) :
                        Contains(Validation.warnings[k], "Duplicate questions found"))
        /\ Validation.validated_structure =
              (IF Validation.is_valid THEN <<form_structure>> ELSE <<>>)

C5_Witness ==
    /\ HasValidation
    /\ OnlyAdvisoryDefects
    /\ Description = ""
    /\ HasDuplicateTexts
    /\ Validation.is_valid
    /\ Len(Validation.warnings) = 2

\* C6: every multiple_choice, checkbox or dropdown question with fewer than 2
\* options, or with an option longer than 1000 characters, makes the report
\* invalid.
C6_ChoiceOptionsChecked ==
    HasValidation =>
        \A k \in 1..Len(Questions) :
            LET q == Questions[k]
                options == Get(q, "options", <<>>)
            IN  (/\ Get(q, "type", "") \in ChoiceKinds
                 /\ \/ Len(options) < 2
                    \/ \E j \in 1..Len(options) : Len(options[j]) > 1000)
                => ~Validation.is_valid

Repaired == Store(form_structure, [questions |-> state.converted_questions])

\* C8: for a structure with a non-empty questions list, one repair pass
\* followed by validation reports is_valid true, with a non-empty title and
\* description, every question of a supported kind, choice questions with at
\* least 2 options or turned into short_answer, and as many questions as before.
C8_RepairConverges ==
    ("converted_questions" \in DOMAIN state /\ Len(Questions) >= 1) =>
        /\ ValidationResult(Repaired).is_valid
        /\ Get(Repaired, "title", "") # ""
        /\ Get(Repaired, "description", "") # ""
        /\ Len(Repaired.questions) = Len(Questions)
        /\ \A k \in 1..Len(Repaired.questions) :
              LET q == Repaired.questions[k]
              IN  /\ Lower(q.type) \in QuestionKind
                  /\ Lower(q.type) \in ChoiceKinds => Len(Get(q, "options", <<>>)) >= 2

-----------------------------------------------------------------------------
(* Properties of the compiler *)

\* The requests of the batch the last tool call sent, none if it sent nothing
SentRequests == IF sent = <<>> THEN <<>> ELSE sent[1].body.requests

\* Every question carries a type of the closed set
AllKindsKnown(qs) ==
    \A k \in 1..Len(qs) : Str(Get(qs[k], "type", "")) \in QuestionKind

\* The item add_questions_to_form builds for one question on the path in use
PayloadOf(question) ==
    IF use_standalone
    THEN [title |-> Get(question, "title", ""),
          questionItem |-> [question |-> Api_format_question_for_api(question),
                            required |-> Get(question, "required", FALSE)]]
    ELSE Creator_format_question_for_api(question)

\* C1: for questions whose types are all in the closed set,
\* add_questions_to_form builds exactly len(questions) requests, each a
\* createItem; the k-th one carries the payload of the k-th question and the
\* location index k, counted from 0, so that no question is skipped and the
\* indices increase strictly in the original order.
C1_OneCreateItemPerQuestion ==
    (call = "add_questions_to_form" /\ AllKindsKnown(questions_arg)) =>
        /\ Len(SentRequests) = Len(questions_arg)
        /\ \A k \in 1..Len(SentRequests) :
              /\ DOMAIN SentRequests[k] = {"createItem"}
              /\ SentRequests[k].createItem.location.index = k - 1
              /\ SentRequests[k].createItem.item = PayloadOf(questions_arg[k])
        /\ \A j, k \in 1..Len(SentRequests) :
              j < k => SentRequests[j].createItem.location.index
                         < SentRequests[k].createItem.location.index

C1_Witness ==
    /\ call = "add_questions_to_form"
    /\ ~use_standalone
    /\ AllKindsKnown(questions_arg)
    /\ Len(questions_arg) = 2
    /\ questions_arg[1].type # questions_arg[2].type
    /\ result.status = "success"
    /\ Len(SentRequests) = 2

\* C2: when some question carries a type outside the closed set,
\* add_questions_to_form reports an error and sends no item to the form.
C2_UnknownKindIsCompileError ==
    (call = "add_questions_to_form" /\ ~AllKindsKnown(questions_arg)) =>
        /\ result.status = "error"
        /\ sent = <<>>

-----------------------------------------------------------------------------
(* Properties of the parser *)

\* The keyword groups of the classification, in their order of precedence
KeywordGroups ==
    << [kind |-> "long_answer", words |-> {"explain", "describe", "elaborate", "why", "how"}],
       [kind |-> "linear_scale", words |-> {"rate", "scale", "score", "1-5", "1-10"}],
       [kind |-> "checkbox", words |-> {"select all", "check all", "multiple"}],
       [kind |-> "date", words |-> {"date", "when"}],
       [kind |-> "time", words |-> {"time", "hour"}] >>

\* The groups one of whose words occurs in the lower-cased text
MatchingGroups(txt) ==
    {g \in 1..Len(KeywordGroups) :
        \E w \in KeywordGroups[g].words : Contains(Lower(txt), w)}

\* The kind of the first matching group, short_answer when none matches
FirstMatchingKind(txt) ==
    IF MatchingGroups(txt) = {} THEN "short_answer"
    ELSE KeywordGroups[CHOOSE g \in MatchingGroups(txt) :
                           \A h \in MatchingGroups(txt) : g <= h].kind

ExtractedQuestions == result.form_structure.questions

\* A question taken from a numbered line: it ends at its question mark and is
\* not a multiple choice question
IsNumberedQuestion(q) ==
    /\ q.type # "multiple_choice"
    /\ q.question # ""
    /\ CharAt(q.question, Len(q.question)) = "?"

ScenarioText == "1. Explain your reasoning?\n2. Rate this 1-5?"

\* C9: a question extracted from a numbered line has the kind of the first
\* keyword group, in the order long_answer, linear_scale, checkbox, date,
\* time, that has a word in its text, and short_answer when no group has; the
\* two numbered lines "Explain your reasoning?" and "Rate this 1-5?" give two
\* questions, a long_answer and a linear_scale, in that order.
C9_KeywordPrecedence ==
    call = "extract_questions" =>
        /\ \A k \in 1..Len(ExtractedQuestions) :
              IsNumberedQuestion(ExtractedQuestions[k]) =>
                  ExtractedQuestions[k].type
                      = FirstMatchingKind(ExtractedQuestions[k].question)
        /\ text = ScenarioText =>
              /\ Len(ExtractedQuestions) = 2
              /\ ExtractedQuestions[1].type = "long_answer"
              /\ ExtractedQuestions[2].type = "linear_scale"
              /\ ExtractedQuestions[1].question = "1. Explain your reasoning?"
              /\ ExtractedQuestions[2].question = "2. Rate this 1-5?"

C9_Witness ==
    /\ call = "extract_questions"
    /\ text = ScenarioText
    /\ Len(ExtractedQuestions) = 2
    /\ ExtractedQuestions[1].type = "long_answer"
    /\ ExtractedQuestions[2].type = "linear_scale"

-----------------------------------------------------------------------------
(* Properties of the editor *)

\* The parts of a comma-separated mask, as a set
RECURSIVE SplitFrom(_, _, _)
SplitFrom(s, start, i) ==
    IF i > Len(s) THEN {SubSeq(s, start, Len(s))}
    ELSE IF CharAt(s, i) = "," THEN {SubSeq(s, start, i - 1)} \cup SplitFrom(s, i + 1, i + 1)
    ELSE SplitFrom(s, start, i + 1)

MaskParts(mask) == SplitFrom(mask, 1, 1)

\* The positions of the modifications that update a question
Updates ==
    {k \in 1..Len(modifications) : Get(modifications[k], "operation", "") = "update"}

\* The position in the batch of the request built for the k-th modification:
\* a modification with an operation other than add, update or delete builds
\* no request
RequestIndex(k) ==
    Cardinality({j \in 1..k :
        Get(modifications[j], "operation", "") \in {"add", "update", "delete"}})

MaskOf(k) == SentRequests[RequestIndex(k)].updateItem.updateMask

KindOf(k) == Lower(Get(modifications[k].question, "type", ""))

Graded(k) == "grading" \in DOMAIN modifications[k].question

\* C10: the update mask of an updated question is determined by its kind and
\* by the presence of grading: two updates of the same kind and the same
\* grading presence carry the same mask; the mask of a linear_scale holds
\* questionItem.question.scaleQuestion and questionItem.question.required, the
\* mask of an image holds imageItem.image, and questionItem.question.grading
\* is in the mask exactly when grading is present.
C10_MaskByKindAndGrading ==
    (call = "modify_questions" /\ sent # <<>>) =>
        \A i \in Updates :
            /\ KindOf(i) = "linear_scale" =>
                  {"questionItem.question.scaleQuestion",
                   "questionItem.question.required"} \subseteq MaskParts(MaskOf(i))
            /\ KindOf(i) = "image" => "imageItem.image" \in MaskParts(MaskOf(i))
            /\ "questionItem.question.grading" \in MaskParts(MaskOf(i)) <=> Graded(i)
            /\ \A j \in Updates :
                  (KindOf(i) = KindOf(j) /\ Graded(i) = Graded(j)) => MaskOf(i) = MaskOf(j)

C10_Witness ==
    /\ call = "modify_questions"
    /\ sent # <<>>
    /\ Updates = {1, 2}
    /\ KindOf(1) = "multiple_choice"
    /\ KindOf(2) = "multiple_choice"
    /\ Graded(1)
    /\ Graded(2)
    /\ modifications[1].question # modifications[2].question
    /\ MaskOf(1) = MaskOf(2)

-----------------------------------------------------------------------------
(* Properties of the compiled choice options *)

\* The createItem request sent for the question at 1-based position k
CreateRequestOf(k) ==
    CHOOSE r \in Range(SentRequests) : r.createItem.location.index = k - 1

CompiledOptions(k) ==
    CreateRequestOf(k).createItem.item.questionItem.question.choiceQuestion.options

\* C11: for every multiple_choice, checkbox or dropdown question the option
\* list of the compiled payload has the length of the question's options and
\* holds, position by position, the string form of the option, so nothing is
\* dropped, duplicated or reordered; the options "A", "B", "C" compile to the
\* values "A", "B", "C".
C11_OptionsPreserved ==
    call = "add_questions_to_form" =>
        \A k \in 1..Len(questions_arg) :
            LET q == questions_arg[k]
                options == Get(q, "options", <<>>)
            IN  Str(Get(q, "type", "")) \in ChoiceKinds =>
                   /\ \E r \in Range(SentRequests) : r.createItem.location.index = k - 1
                   /\ Len(CompiledOptions(k)) = Len(options)
                   /\ \A j \in 1..Len(options) :
                         CompiledOptions(k)[j] = [value |-> Str(options[j])]
                   /\ options = <<"A", "B", "C">> =>
                         CompiledOptions(k) = <<[value |-> "A"], [value |-> "B"],
                                                [value |-> "C"]>>

C11_Witness ==
    /\ call = "add_questions_to_form"
    /\ ~use_standalone
    /\ result.status = "success"
    /\ Len(questions_arg) = 2
    /\ questions_arg[1].type = "multiple_choice"
    /\ questions_arg[1].options = <<"A", "B", "C">>
    /\ questions_arg[2].type = "dropdown"
    /\ Len(questions_arg[2].options) = 3
    /\ CompiledOptions(2) = <<[value |-> "B"], [value |-> "A"], [value |-> "B"]>>

-----------------------------------------------------------------------------
(* Properties of the result envelope *)

\* C12: every tool call returns a dictionary whose status is "success" or
\* "error", and every result with status "error" carries both an
\* error_message and an error_type.
C12_ErrorEnvelope ==
    call # "none" =>
        /\ result.status \in {"success", "error"}
        /\ result.status = "error" =>
              {"error_message", "error_type"} \subseteq DOMAIN result

-----------------------------------------------------------------------------
(* Properties of the session *)

\* C13: two writes a session sent to the form service are never less than one
\* second apart, a write tool called earlier than that being answered by the
\* callback instead of run.
C13_WritesOneSecondApart ==
    \A i \in 1..(Len(writes) - 1) :
        writes[i + 1].time - writes[i].time >= RateLimitWindow

-----------------------------------------------------------------------------
(* Properties of form creation *)

CreateSucceeded == sent[1].outcome = "ok"

\* The descriptions a call to the form service carries in an updateFormInfo request
DescriptionsIn(c) ==
    IF c.request.method # "forms.batchUpdate" THEN {}
    ELSE {c.request.body.requests[k].updateFormInfo.info.description :
            k \in {j \in 1..Len(c.request.body.requests) :
                     /\ "updateFormInfo" \in DOMAIN c.request.body.requests[j]
                     /\ "description" \in
                          DOMAIN c.request.body.requests[j].updateFormInfo.info}}

\* C14: creating a form first sends a create request whose body holds the title
\* alone (info.title, possibly info.documentTitle); every batch update comes
\* after a create that returned the form identifier and names that form; the
\* description travels in such a batch update and nowhere else; a failed create
\* is followed by no call at all.
C14_TitleThenDescription ==
    call = "create_google_form" =>
        /\ Len(sent) >= 1
        /\ sent[1].request.method = "forms.create"
        /\ DOMAIN sent[1].request.body = {"info"}
        /\ "title" \in DOMAIN sent[1].request.body.info
        /\ DOMAIN sent[1].request.body.info \subseteq {"title", "documentTitle"}
        /\ sent[1].request.body.info.title = args.title
        /\ \A i \in 2..Len(sent) :
              /\ sent[i].request.method # "forms.create"
              /\ CreateSucceeded
              /\ sent[i].request.formId \in FormIds
        /\ ~CreateSucceeded => Len(sent) = 1
        /\ \A i \in 1..Len(sent) :
              DescriptionsIn(sent[i]) # {} =>
                  /\ i > 1
                  /\ CreateSucceeded
                  /\ DescriptionsIn(sent[i]) =
                        {EffectiveDescription(args.title, args.description, args.form_type)}

C14_Witness ==
    /\ call = "create_google_form"
    /\ args.description = "About the survey"
    /\ Len(sent) >= 2
    /\ "About the survey" \in DescriptionsIn(sent[2])
    /\ result.status = "success"

-----------------------------------------------------------------------------
(* Properties of remote failures *)

\* The positions of the calls the form service refused
Refused == {i \in 1..Len(sent) : sent[i].outcome # "ok"}

\* C15: when the form service refuses a call of a tool, the tool returns
\* status "error" with the HTTP status as error_code and the message of the
\* service, unchanged, as error_message, and does not issue that call again.
C15_RemoteErrorPassedThrough ==
    (call = "create_google_form" /\ Refused # {}) =>
        /\ result.status = "error"
        /\ "error_code" \in DOMAIN result /\ result.error_code = HttpStatus
        /\ result.error_message = HttpMessage
        /\ \A i \in Refused : \A j \in 1..Len(sent) :
              j # i => sent[j].request # sent[i].request

-----------------------------------------------------------------------------
(* Properties of the caller's questions *)

\* C16: compiling never rewrites its input; when the tool returns, every
\* question dictionary passed in has the keys and values it had before.
C16_InputUntouched == [][questions_arg' = questions_arg]_vars

-----------------------------------------------------------------------------
(* Properties of the payload shapes *)

\* The modifications a question is compiled for
Compiled ==
    {k \in 1..Len(modifications) :
        Get(modifications[k], "operation", "") \in {"add", "update"}}

\* The item compiled for the k-th modification, without the identifier of the
\* item an update names
ItemOf(k) ==
    LET r == SentRequests[RequestIndex(k)]
        item == IF "createItem" \in DOMAIN r THEN r.createItem.item ELSE r.updateItem.item
    IN  [f \in DOMAIN item \ {"itemId"} |-> item[f]]

DifferOnlyInKind(p, q) ==
    /\ p.type \in QuestionKind /\ q.type \in QuestionKind
    /\ p.type # q.type
    /\ DOMAIN p = DOMAIN q
    /\ \A f \in DOMAIN p \ {"type"} : p[f] = q[f]

\* C17: every kind compiles to its own payload shape: a long_answer is a text
\* question with paragraph set, the two grid kinds differ in the type of their
\* grid, image, video and section carry no question item, and two questions
\* that differ only in kind never compile to the same payload.
C17_PayloadShapePerKind ==
    (call = "modify_questions" /\ sent # <<>>) =>
        \A i \in Compiled :
            /\ KindOf(i) = "long_answer" =>
                  ItemOf(i).question.textQuestion = [paragraph |-> TRUE]
            /\ KindOf(i) = "image" => DOMAIN ItemOf(i) \cap {"imageItem", "question"} = {"imageItem"}
            /\ KindOf(i) = "video" => DOMAIN ItemOf(i) \cap {"videoItem", "question"} = {"videoItem"}
            /\ KindOf(i) = "section" =>
                  DOMAIN ItemOf(i) \cap {"pageBreakItem", "question"} = {"pageBreakItem"}
            /\ \A j \in Compiled :
                  DifferOnlyInKind(modifications[i].question, modifications[j].question) =>
                      ItemOf(i) # ItemOf(j)

-----------------------------------------------------------------------------
(* Properties of the extracted questions *)

\* The lines of s
LinesOf(s) == {SubSeq(s, i, EndOfLine(s, i)) : i \in LineStarts(s)}

\* A question comes from a line when a line of its text, blanks aside, is a
\* part of that line
ComesFrom(q, line) ==
    \E piece \in LinesOf(q.question) : Strip(piece) # "" /\ Contains(line, Strip(piece))

\* No line is written twice in the document
LinesDiffer ==
    \A i \in LineStarts(text) : \A j \in LineStarts(text) :
        i # j => SubSeq(text, i, EndOfLine(text, i)) # SubSeq(text, j, EndOfLine(text, j))

\* C18: a span of the text is emitted as one question at most: the list of
\* questions never holds two entries that come from the same line of the
\* document.
C18_OneQuestionPerLine ==
    (call = "extract_questions" /\ LinesDiffer) =>
        \A i \in 1..Len(ExtractedQuestions) : \A j \in 1..Len(ExtractedQuestions) :
            i # j =>
                \A line \in LinesOf(text) :
                    ~(ComesFrom(ExtractedQuestions[i], line)
                        /\ ComesFrom(ExtractedQuestions[j], line))

-----------------------------------------------------------------------------
(* Properties of the type analysis *)

\* The kind the k-th checked question was given as
GivenKind(k) == Lower(Get(Questions[k], "type", ""))

\* C19: the conversion runs only for types outside QuestionKind: a question
\* whose type is one of the kinds, image, video and section included, is
\* listed in type_analysis.supported under its own kind and is in no
\* conversion_needed entry.
C19_KnownKindsSupported ==
    (call = "check_question_types" /\ result.status = "success") =>
        /\ \A k \in 1..Len(Questions) :
              GivenKind(k) \in QuestionKind =>
                  \E e \in Range(result.type_analysis.supported) :
                      e.index = k - 1 /\ e.type = GivenKind(k)
        /\ \A e \in Range(result.type_analysis.conversion_needed) :
              e.original_type \notin QuestionKind

-----------------------------------------------------------------------------
(* Properties of the modification batch *)

\* The modifications a request is built for
Applied ==
    {k \in 1..Len(modifications) :
        Get(modifications[k], "operation", "") \in {"add", "update", "delete"}}

\* The request sent for the k-th modification
RequestOf(k) == SentRequests[RequestIndex(k)]

\* C20: the batch holds one request for every add, update and delete, in the
\* order given: a createItem with the formatted item at the index of an add,
\* an updateItem with the item id and the mask of the kind for an update, a
\* deleteItem at the index of a delete; modifications_applied counts the
\* requests; with no request built the result is an error and nothing is sent.
C20_OneRequestPerModification ==
    call = "modify_questions" =>
        /\ sent # <<>> =>
              /\ Len(sent) = 1
              /\ Len(SentRequests) = Cardinality(Applied)
              /\ \A k \in Applied :
                    LET mod == modifications[k]
                    IN  CASE mod.operation = "add" ->
                               /\ DOMAIN RequestOf(k) = {"createItem"}
                               /\ RequestOf(k).createItem.location.index
                                     = Get(mod, "index", 0)
                               /\ RequestOf(k).createItem.item
                                     = Editor_format_question_for_api(mod.question)
                          [] mod.operation = "update" ->
                               /\ DOMAIN RequestOf(k) = {"updateItem"}
                               /\ RequestOf(k).updateItem.item.itemId
                                     = Get(mod, "item_id", None)
                               /\ RequestOf(k).updateItem.updateMask
                                     = _get_update_mask_for_question(mod.question)
                          [] mod.operation = "delete" ->
                               /\ DOMAIN RequestOf(k) = {"deleteItem"}
                               /\ RequestOf(k).deleteItem.location.index
                                     = Get(mod, "index", 0)
        /\ result.status = "success" =>
              /\ sent # <<>>
              /\ result.modifications_applied = Len(SentRequests)
        /\ Applied = {} => (sent = <<>> /\ result.status = "error")

\* An add and a delete after it, applied as two requests in that order
C20_Witness ==
    /\ call = "modify_questions"
    /\ Len(modifications) = 2
    /\ modifications[1].operation = "add" /\ modifications[2].operation = "delete"
    /\ result.status = "success" /\ result.modifications_applied = 2
    /\ "createItem" \in DOMAIN sent[1].body.requests[1]
    /\ "deleteItem" \in DOMAIN sent[1].body.requests[2]

-----------------------------------------------------------------------------
(* Properties of the tool cache *)

\* The last tool call of the session returned a success
LastCallSucceeded ==
    /\ call \in SessionTools
    /\ Get(result, "status", Get(result, "result", None)) = "success"

\* C21: a tool that returned a success is answered from the cache when it is
\* called again with equal arguments in the same session: the same result
\* comes back, nothing is written to the form service and api_call_count
\* stays as it was.
C21_SuccessAnsweredFromCache ==
    [][(LastCallSucceeded /\ call' = call /\ args' = args /\ now' = now) =>
          /\ result' = result
          /\ writes' = writes
          /\ Get(state', "api_call_count", 0) = Get(state, "api_call_count", 0)]_vars

-----------------------------------------------------------------------------
(* Properties of the response cache *)

\* The requests the model answered before the last one was handled
AnsweredBefore ==
    IF call = "llm_request" /\ result.source = "model" THEN SubSeq(sent, 1, Len(sent) - 1)
    ELSE sent

\* C22: a request comes back from the cache exactly when the model answered a
\* request with the same contents before and the answer was stored, and the
\* response returned is that answer.
C22_ResponseCachedPerRequest ==
    call = "llm_request" =>
        /\ result.source = "cache" =>
              \E i \in 1..Len(AnsweredBefore) :
                  /\ AnsweredBefore[i].contents = text
                  /\ AnsweredBefore[i].response = result.text
        /\ result.source = "model" =>
              \A i \in 1..Len(AnsweredBefore) :
                  AnsweredBefore[i].contents = text => AnsweredBefore[i].response = ""

-----------------------------------------------------------------------------
(* Properties of deletions *)

\* The delete modifications that name an item
Deletes ==
    {k \in Applied : modifications[k].operation = "delete"
                     /\ "item_id" \in DOMAIN modifications[k]}

\* The batch of modify_questions went through and the form took its requests
ModifyApplied ==
    /\ call = "modify_questions"
    /\ result.status = "success"
    /\ BatchApplies(FormItems, SentRequests, Len(SentRequests))

\* C23: the deleteItem built for a delete modification takes out the item
\* named by its item_id, with or without an index in the modification.
C23_DeleteTargetsItem ==
    ModifyApplied =>
        \A k \in Deletes :
            LET before == AfterRequests(FormItems, SentRequests, RequestIndex(k) - 1)
            IN  before[RequestOf(k).deleteItem.location.index + 1]
                    = modifications[k].item_id

\* The items of a form without those at the given indices
WithoutIndices(items, indices) ==
    SelectSeq([k \in 1..Len(items) |-> IF (k - 1) \in indices THEN None ELSE items[k]],
              LAMBDA id : id # None)

\* The indices listed in the last call
DeletedIndices ==
    IF call = "delete_questions_tool" THEN Range(args.question_indices)
    ELSE {Get(modifications[k], "index", 0) : k \in 1..Len(modifications)}

\* The last call asked for deletions only, each at an index of its own, and
\* the form took the batch
DeletionsApplied ==
    /\ \/ call = "delete_questions_tool" /\ result.result = "success"
       \/ /\ call = "modify_questions" /\ result.status = "success"
          /\ \A k \in 1..Len(modifications) : modifications[k].operation = "delete"
    /\ Len(SentRequests) = Cardinality(DeletedIndices)
    /\ BatchApplies(FormItems, SentRequests, Len(SentRequests))

\* C24: after a call that deletes several items, the form holds exactly the
\* items that did not stand at a listed index when the call was made.
C24_DeletesListedItems ==
    DeletionsApplied =>
        AfterRequests(FormItems, SentRequests, Len(SentRequests))
            = WithoutIndices(FormItems, DeletedIndices)

-----------------------------------------------------------------------------
(* Properties of the update mask *)

\* The position of the first dot of a field path, 0 when it has none
FirstDot(path) ==
    IF \E i \in 1..Len(path) : CharAt(path, i) = "."
    THEN CHOOSE i \in 1..Len(path) :
            /\ CharAt(path, i) = "."
            /\ \A j \in 1..(i - 1) : CharAt(path, j) # "."
    ELSE 0

\* The payload holds a field at the path, each name of the path being a key of
\* the dictionary the names before it lead to
RECURSIVE HasPath(_, _)
HasPath(payload, path) ==
    LET dot == FirstDot(path)
        head == IF dot = 0 THEN path ELSE SubSeq(path, 1, dot - 1)
    IN  /\ head \in DOMAIN payload
        /\ dot # 0 => HasPath(payload[head], SubSeq(path, dot + 1, Len(path)))

\* C25: every field path of the mask of an updateItem, title aside, names a
\* field that the item of the same request holds; questionItem.question.grading
\* is among them only with a grading in the item.
C25_MaskNamesPayloadFields ==
    (call = "modify_questions" /\ sent # <<>>) =>
        \A i \in Updates :
            \A path \in MaskParts(MaskOf(i)) \ {"title"} :
                HasPath(RequestOf(i).updateItem.item, path)

-----------------------------------------------------------------------------
(* Properties of the two backends *)

\* The kind of question an item asks
PayloadKind(item) ==
    LET q == item.questionItem.question
    IN  IF "choiceQuestion" \in DOMAIN q THEN q.choiceQuestion.type
        ELSE IF "scaleQuestion" \in DOMAIN q THEN "LINEAR_SCALE"
        ELSE IF "dateQuestion" \in DOMAIN q THEN "DATE"
        ELSE IF "timeQuestion" \in DOMAIN q THEN "TIME"
        ELSE IF "textQuestion" \in DOMAIN q
        THEN IF Get(q.textQuestion, "paragraph", FALSE) THEN "PARAGRAPH"
             ELSE "SHORT_ANSWER"
        ELSE Get(q, "questionType", "")

\* The options an item offers
PayloadOptions(item) ==
    LET q == item.questionItem.question
    IN  IF "choiceQuestion" \in DOMAIN q THEN q.choiceQuestion.options ELSE <<>>

\* C26: for the questions extract_questions produced, the batch sent is the
\* same on either backend: the item of every question has the text of the
\* question as its title, and the items the standalone path and the direct
\* path build for it agree in title, kind and options.
C26_BackendsCompileAlike ==
    (call = "add_questions_to_form" /\ sent # <<>>) =>
        /\ Len(SentRequests) = Len(questions_arg)
        /\ \A k \in 1..Len(questions_arg) :
              LET api == ApiRequests(questions_arg)[k].createItem.item
                  direct == DirectRequests(questions_arg)[k].createItem.item
              IN  /\ SentRequests[k].createItem.item.title = questions_arg[k].question
                  /\ api.title = direct.title
                  /\ PayloadKind(api) = PayloadKind(direct)
                  /\ PayloadOptions(api) = PayloadOptions(direct)

-----------------------------------------------------------------------------
(* Properties of the call tracking *)

\* The step is a tool call of the session
ToolStep == now' = now

\* The callback answered the call of the step itself: its dictionaries carry
\* the key result, the dictionaries of the tools the key status
Rejected == ToolStep /\ Get(result', "result", None) = "error"

Proceeded == ToolStep /\ "status" \in DOMAIN result'

\* The time of the last call that proceeded, none before the first
LastProceeded ==
    IF "last_api_call_time" \in DOMAIN state
    THEN <<FromIsoFormat(state.last_api_call_time)>>
    ELSE <<>>

\* C27: a call the callback rejects leaves last_api_call_time and
\* api_call_count as they were; a call that proceeds sets last_api_call_time
\* to its time and adds one to api_call_count, so the count is the number of
\* calls that proceeded; and a write with its arguments in place, called one
\* second or more after the last call that proceeded, proceeds whatever was
\* rejected in between.
C27_RejectedCallsLeaveTracking ==
    [][/\ Rejected =>
             /\ Get(state', "last_api_call_time", None)
                   = Get(state, "last_api_call_time", None)
             /\ Get(state', "api_call_count", 0) = Get(state, "api_call_count", 0)
       /\ Proceeded =>
             /\ state'.last_api_call_time = IsoFormat(now)
             /\ state'.api_call_count = Get(state, "api_call_count", 0) + 1
       /\ (/\ ToolStep
           /\ call' \in WriteTools
           /\ call' = "create_google_form" =>
                 /\ ~Falsy(Get(args', "title", None))
                 /\ ~Falsy(Get(args', "description", None))
           /\ LastProceeded # <<>> => now - LastProceeded[1] >= RateLimitWindow)
             => Proceeded]_vars

\* A write rejected within the second and retried after it: the retry
\* proceeds and is the second call counted
C27_Witness ==
    /\ Len(writes) = 2
    /\ call = writes[2].tool
    /\ call \in RateLimitedTools
    /\ Get(result, "status", None) = "success"
    /\ Get(state, "error_count", 0) = 1
    /\ state.last_error.error = RateLimitError.message
    /\ FromIsoFormat(state.last_error.timestamp) < writes[2].time
    /\ writes[2].time - writes[1].time >= RateLimitWindow
    /\ state.api_call_count = 2

-----------------------------------------------------------------------------
(* Properties of concurrent invocations *)

\* Every invocation has returned or not begun
NoneUnderWay == \A p \in Invocations : invocations[p].pc \in {"idle", "done"}

\* C28: of the invocations of before_tool_callback for rate-limited tools on
\* one session state, no two proceed less than one second apart, and once they
\* have returned api_call_count is the number of them that proceeded.
C28_OneProceedsPerWindow ==
    /\ \A i \in 1..Len(writes) : \A j \in (i + 1)..Len(writes) :
          writes[j].time - writes[i].time >= RateLimitWindow
    /\ NoneUnderWay => Get(state, "api_call_count", 0) = Len(writes)

-----------------------------------------------------------------------------
(* Properties of the state written by the tools *)

\* C29: a tool that returns an error has written nothing into the session
\* state: the state after the call is the state before it.
C29_ErrorLeavesState ==
    [][(call' \in {"validate_form_structure", "check_question_types",
                   "extract_questions", "add_questions_to_form", "modify_questions",
                   "create_google_form"}
        /\ Get(result', "status", None) = "error") => state' = state]_vars

-----------------------------------------------------------------------------
(* Properties of a failed creation *)

\* C30: create_google_form is all or nothing: it returns success only with the
\* form created and no call after the create refused, and it returns an error
\* only with no form created at the form service, so that calling it again
\* after an error leaves one form and not two.
C30_CreateAllOrNothing ==
    call = "create_google_form" =>
        /\ result.status = "success" => (CreateSucceeded /\ Refused = {})
        /\ result.status = "error" => ~CreateSucceeded

====
